---------------------------- MODULE Spec2Model ----------------------------
(***************************************************************************)
(* A model of the nyctaxi-streamlit repository: the ingestion builder      *)
(* (src/build_duckdb.py), the snapshot builder (src/duckdb/build_duckdb.py)*)
(* the date-column resolver build_date_expr the first one uses, the        *)
(* ingestion dashboard (src/streamlit_app.py) over the views of the first  *)
(* and the snapshot dashboard (src/streamlit/app/streamlit_app.py) over    *)
(* the tables of the second.  A dashboard is a script that Streamlit runs  *)
(* from the top at start-up and again after every widget change; only the  *)
(* widget values outlive a run.  The weekly rollup the dashboards apply to *)
(* the frame of a chart (weekly_rollup, maybe_weekly) is a program of its  *)
(* own, called on a frame.                                                 *)
(*                                                                         *)
(* Python strings are TLA+ strings: TLC reads a string as the sequence of  *)
(* its characters (Len, SubSeq and \o work on it), so a column name, a SQL *)
(* expression and the tests the code makes on them (lower(), "in",         *)
(* endswith, f-string concatenation) are computed character by character.  *)
(***************************************************************************)
EXTENDS Integers, Sequences, FiniteSets, TLC

VARIABLES
    prog,     \* which program runs: "resolver", "ingest", "snapshot",
              \* "dash" (ingestion dashboard), "app" (snapshot dashboard) or
              \* "rollup" (weekly_rollup or maybe_weekly alone)
    pc,       \* the position of the program
    cols,     \* resolver: the column list handed to build_date_expr
    expr,     \* resolver: the expression build_date_expr returned
    data,     \* the input directory: dataset position -> fixture id, 0 = the glob matches no file
    disk,     \* the database file: NoFile, or the database it holds
    i,        \* the loop index of the running builder, the tab of the running dashboard
    exc,      \* the unhandled exception that ended the run ("" = none)
    idxFailed, \* the CREATE INDEX statements that failed in this run
    run,      \* builders: 1 in the first run of the script, 2 in the run after it, ...
    first,    \* builders: the database file as the first run left it
    printed,  \* builders: the row counts this run has printed, in order
    frames,   \* dashboards: the frames loaded at start-up (view -> frame)
    opts,     \* dashboards: what the sidebar offers (min_date, max_date, services)
              \* and the default range handed to st.date_input
    sel,      \* dashboards: the widget values of the session (NoSel before the first run)
    kpi,      \* dashboards: the values of the KPI row (NoKpi until rendered)
    ui,       \* dashboards: the elements this script run has rendered, in order
    panels,   \* dashboards: what each tab rendered so far, in order of the tabs
    nq,       \* dashboards: the number of queries this script run has issued
    arg,      \* rollup: the function called and its arguments
    ret       \* rollup: the frame the function returned

dashVars == <<frames, opts, sel, kpi, ui, panels, nq, arg, ret>>

vars == <<prog, pc, cols, expr, data, disk, i, exc, idxFailed, run, first, printed, dashVars>>

---------------------------------------------------------------------------
(* Strings *)

CharAt(s, k) == SubSeq(s, k, k)

UpperAlpha == "ABCDEFGHIJKLMNOPQRSTUVWXYZ"
LowerAlpha == "abcdefghijklmnopqrstuvwxyz"
Digits     == "0123456789"

\* "sub in s"
Contains(s, sub) ==
    \E k \in 1..(Len(s) - Len(sub) + 1) : SubSeq(s, k, k + Len(sub) - 1) = sub

\* s.startswith(p), s.endswith(p)
StartsWith(s, p) == Len(s) >= Len(p) /\ SubSeq(s, 1, Len(p)) = p
EndsWith(s, p)   == Len(s) >= Len(p) /\ SubSeq(s, Len(s) - Len(p) + 1, Len(s)) = p
Drop(s, n)       == SubSeq(s, n + 1, Len(s))

LowerChar(c) ==
    IF Contains(UpperAlpha, c)
    THEN CharAt(LowerAlpha, CHOOSE k \in 1..Len(UpperAlpha) : CharAt(UpperAlpha, k) = c)
    ELSE c

\* str.lower(), computed character by character
RECURSIVE LowerStr(_)
LowerStr(s) == IF Len(s) = 0 THEN "" ELSE LowerChar(CharAt(s, 1)) \o LowerStr(Drop(s, 1))

\* any(ch in s for ch in chars)
AnyCharIn(s, chars) == \E k \in 1..Len(chars) : Contains(s, CharAt(chars, k))

\* sep.join(seq)
RECURSIVE join(_, _)
join(sep, seq) ==
    IF Len(seq) = 0 THEN ""
    ELSE IF Len(seq) = 1 THEN seq[1]
    ELSE seq[1] \o sep \o join(sep, Tail(seq))

---------------------------------------------------------------------------
(* The inputs considered *)

MaxCols == 2

\* Column names as a table's schema may report them.
NamePool ==
    { "pickup_date", "Pickup_Date", "DATE", "service_date", "tpep_pickup_datetime",
      "trip_date", "Dropoff Date", "trip-date", "my\"date", "update",
      "dt", "day", "date_key", "trip_date_key",
      "trips", "zone id", "service_type" }

NULL == "<NULL>"

\* Parquet inputs a dataset folder may hold (the union by name of its parts):
\* the columns, and the rows as the text of each cell.
Fixtures ==
    << [cols |-> <<"LocationID", "Zone">>,
        rows |-> << <<"1", "Newark">>, <<"2", "Jamaica">> >>],
       [cols |-> <<"pickup_date", "service_type", "trips">>,
        rows |-> << <<"2024-07-01", "yellow", "10">>, <<"2024-07-02", "green", "7">> >>],
       [cols |-> <<"tpep_pickup_datetime", "trips">>,
        rows |-> << <<"2024-07-01", "3">>, <<"2024-07-02", "4">>, <<NULL, "5">> >>],
       [cols |-> <<"service_date", "Pickup_Date", "service_type">>,
        rows |-> << <<"2024-07-02", "not-a-date", "fhvhv">>,
                    <<"2024-07-02", "2024-07-01", "fhvhv">>,
                    <<NULL, NULL, "yellow">> >>],
       [cols |-> <<"trip-date", "Dropoff Date", "trips">>,
        rows |-> << <<"2024-07-01", "2024-07-02", "1">>, <<"n/a", "2024-07-02", "2">> >>],
       [cols |-> <<"date_key", "service_type">>,
        rows |-> << <<"20240701", "green">> >>],
       [cols |-> <<"my\"date", "trips">>,
        rows |-> << <<"2024-07-01", "9">> >>] >>

NumFixtures == Len(Fixtures)

Range(f) == {f[x] : x \in DOMAIN f}

FixtureNames == UNION {Range(Fixtures[f].cols) : f \in 1..NumFixtures}

\* Exports as the dashboards expect them.  The daily pre-aggregates: two
\* days with rows, a day between them with none, and a row without a date.
DAILY ==
    [cols |-> <<"pickup_date", "service_type", "pu_borough", "pu_zone", "hour",
                "trips", "revenue", "miles", "payment_type", "share", "airport_fees">>,
     rows |-> << <<"2024-07-01", "yellow", "Queens", "JFK Airport", "8", "10", "100", "20", "card", "1", "5">>,
                 <<"2024-07-01", "fhv", "Unknown", "Unknown", "9", "4", "40", "8", "cash", "1", "0">>,
                 <<"2024-07-03", "fhvhv", "Bronx", "Fordham", "8", "6", "60", "12", "card", "1", "2">>,
                 <<"2024-07-03", "yellow", "Bronx", "Fordham", "9", "2", "20", "4", "cash", "1", "0">>,
                 <<NULL, "yellow", "Queens", "Astoria", "8", "1", "10", "2", "card", "1", "0">> >>]

EFFICIENCY ==
    [cols |-> <<"pickup_date", "service_type", "pu_borough", "avg_duration_min">>,
     rows |-> << <<"2024-07-01", "yellow", "Queens", "12">>,
                 <<"2024-07-03", "yellow", "Unknown", "15">> >>]

\* Aggregates over the whole window: no date column.
UNDATED ==
    [cols |-> <<"service_type", "pu_borough", "pu_zone", "do_borough", "trips", "tip_pct">>,
     rows |-> << <<"yellow", "Queens", "JFK Airport", "Bronx", "3", "20">>,
                 <<"fhv", "EWR", "Newark Airport", "Queens", "2", "30">>,
                 <<"fhv", "Unknown", "Unknown", "Unknown", "1", "10">> >>]

\* The snapshot's trip aggregate and FHVHV flags.
TRIPS_AGG ==
    [cols |-> <<"pickup_date", "service_type", "pu_borough", "pu_zone", "do_borough",
                "do_zone", "pickup_hour", "trips", "revenue", "tips", "miles",
                "avg_duration_min", "congestion_fee", "cbd_congestion_fee", "airport_fee">>,
     rows |-> << <<"2024-07-01", "yellow", "Queens", "JFK Airport", "Bronx", "Fordham",
                   "8", "10", "100", "9", "20", "12", "1", "0", "5">>,
                 <<"2024-07-01", "fhv", "Unknown", "Unknown", "Queens", "Astoria",
                   "9", "4", "40", "0", "8", "15", "0", "0", "0">>,
                 <<"2024-07-03", "fhvhv", "Bronx", "Fordham", "Queens", "Astoria",
                   "8", "6", "60", "3", "12", "11", "1", "1", "2">>,
                 <<NULL, "yellow", "Queens", "Astoria", "Queens", "Astoria",
                   "8", "1", "10", "1", "2", "9", "0", "0", "0">> >>]

FLAGS ==
    [cols |-> <<"pickup_date", "pu_borough", "pu_zone", "trips", "shared_request_rate",
                "shared_match_rate", "wav_request_rate", "wav_match_rate">>,
     rows |-> << <<"2024-07-01", "Queens", "Astoria", "6", "1", "1", "0", "0">>,
                 <<"2024-07-03", "Unknown", "Unknown", "2", "0", "0", "1", "1">> >>]

DashNames ==
    Range(DAILY.cols) \cup Range(EFFICIENCY.cols) \cup Range(UNDATED.cols)
        \cup Range(TRIPS_AGG.cols) \cup Range(FLAGS.cols)

---------------------------------------------------------------------------
(* build_date_expr, src/build_duckdb.py *)

DATE_CANDIDATES ==
    << "pickup_date", "date", "service_date",
       "pickup_datetime", "tpep_pickup_datetime", "lpep_pickup_datetime",
       "fhv_pickup_datetime", "fhvhv_pickup_datetime" >>

\* lower() of the names the model meets is computed once.
LowerMemo ==
    [s \in NamePool \cup FixtureNames \cup DashNames \cup Range(DATE_CANDIDATES)
              \cup {"filename"}
        |-> LowerStr(s)]

lower(s) == IF s \in DOMAIN LowerMemo THEN LowerMemo[s] ELSE LowerStr(s)

\* lower = {c.lower(): c for c in cols}: the keys, and the value of a key
\* (a later column overwrites an earlier one with the same lower-cased name).
LowerKeys(cs) == {lower(cs[k]) : k \in 1..Len(cs)}
LowerGet(cs, key) ==
    cs[CHOOSE k \in 1..Len(cs) :
          /\ lower(cs[k]) = key
          /\ \A j \in (k + 1)..Len(cs) : lower(cs[j]) # key]

\* Tier 1: quoted = t."orig" if orig.lower() == "date" or a space, hyphen or
\* double quote is in orig, else t.orig
Quoted1(orig) ==
    IF lower(orig) = "date" \/ AnyCharIn(orig, " -\"")
    THEN "t.\"" \o orig \o "\""
    ELSE "t." \o orig

RECURSIVE Tier1From(_, _)
Tier1From(cs, n) ==
    IF n > Len(DATE_CANDIDATES) THEN <<>>
    ELSE LET cname == DATE_CANDIDATES[n] IN
         (IF lower(cname) \in LowerKeys(cs)
          THEN << "TRY_CAST(" \o Quoted1(LowerGet(cs, lower(cname))) \o " AS DATE)" >>
          ELSE <<>>)
         \o Tier1From(cs, n + 1)

\* Tier 1 walked in the table's column order instead of the priority order.
RECURSIVE Tier1TableOrderFrom(_, _)
Tier1TableOrderFrom(cs, n) ==
    IF n > Len(cs) THEN <<>>
    ELSE (IF lower(cs[n]) \in Range(DATE_CANDIDATES)
          THEN << "TRY_CAST(" \o Quoted1(cs[n]) \o " AS DATE)" >>
          ELSE <<>>)
         \o Tier1TableOrderFrom(cs, n + 1)

Tier1Exprs_tableOrder(cs) == Tier1TableOrderFrom(cs, 1)

Tier1Exprs(cs) == Tier1From(cs, 1)

\* The tier-2 test without the names dt, ds and day.
Tier2Match_noShortNames(orig) ==
    LET low == lower(orig) IN
    Contains(low, "date") \/ Contains(low, "datetime") \/ EndsWith(low, "_date")

\* Tier 2: the test of line 50, and the quoting of line 51
Tier2Match(orig) ==
    LET low == lower(orig) IN
    \/ Contains(low, "date")
    \/ Contains(low, "datetime")
    \/ low \in {"dt", "ds", "day"}
    \/ EndsWith(low, "_date")

Quoted2(orig) ==
    IF AnyCharIn(orig, " -\"")
    THEN "t.\"" \o orig \o "\""
    ELSE "t." \o orig

RECURSIVE Tier2From(_, _)
Tier2From(cs, n) ==
    IF n > Len(cs) THEN <<>>
    ELSE (IF Tier2Match(cs[n])
          THEN << "TRY_CAST(" \o Quoted2(cs[n]) \o " AS DATE)" >>
          ELSE <<>>)
         \o Tier2From(cs, n + 1)

Tier2Exprs(cs) == Tier2From(cs, 1)

\* Tier 3: the test of line 57, and the expression of line 58
Tier3Match(orig) ==
    LET low == lower(orig) IN low = "date_key" \/ EndsWith(low, "_date_key")

RECURSIVE Tier3From(_, _)
Tier3From(cs, n) ==
    IF n > Len(cs) THEN <<>>
    ELSE (IF Tier3Match(cs[n])
          THEN << "TRY_CAST(STRPTIME(CAST(t." \o cs[n] \o " AS VARCHAR), '%Y%m%d') AS DATE)" >>
          ELSE <<>>)
         \o Tier3From(cs, n + 1)

Tier3Exprs(cs) == Tier3From(cs, 1)

\* The candidate list with tier 2 run whether or not tier 1 found a column.
Candidates_tier2Always(cs) ==
    LET e2 == Tier1Exprs(cs) \o Tier2Exprs(cs)
        e3 == IF e2 = <<>> THEN Tier3Exprs(cs) ELSE e2
    IN  e3

\* The candidate list after the three "if not exprs" steps.
Candidates(cs) ==
    LET e1 == Tier1Exprs(cs)
        e2 == IF e1 = <<>> THEN Tier2Exprs(cs) ELSE e1
        e3 == IF e2 = <<>> THEN Tier3Exprs(cs) ELSE e2
    IN  e3

\* build_date_expr with an untyped NULL as its fallback.
build_date_expr_untypedNull(cs) ==
    LET exprs == Candidates(cs) IN
    IF exprs # <<>> THEN "COALESCE(" \o join(", ", exprs) \o ")" ELSE "NULL"

build_date_expr(cs) ==
    LET exprs == Candidates(cs) IN
    IF exprs # <<>> THEN "COALESCE(" \o join(", ", exprs) \o ")" ELSE "NULL::DATE"

---------------------------------------------------------------------------
(* What the database engine does with the expression the builder hands it  *)
(* in the view's SELECT list (src/build_duckdb.py, lines 83-94): it parses *)
(* it, binds the column references and evaluates it on every row.          *)

Fail == [ok |-> FALSE]

IdentChars == LowerAlpha \o UpperAlpha \o Digits \o "_"

\* The length of the longest prefix of s made of identifier characters.
RECURSIVE UnquotedLen(_)
UnquotedLen(s) ==
    IF Len(s) > 0 /\ Contains(IdentChars, CharAt(s, 1))
    THEN 1 + UnquotedLen(Drop(s, 1))
    ELSE 0

\* A delimited identifier from its character k on: it ends at the first
\* double quote that is not doubled; a doubled one stands for one quote.
RECURSIVE ScanQuoted(_, _, _)
ScanQuoted(s, k, acc) ==
    IF k > Len(s) THEN Fail
    ELSE IF CharAt(s, k) = "\""
         THEN IF k + 1 <= Len(s) /\ CharAt(s, k + 1) = "\""
              THEN ScanQuoted(s, k + 2, acc \o "\"")
              ELSE IF acc = "" THEN Fail
                   ELSE [ok |-> TRUE, name |-> acc, rest |-> Drop(s, k)]
         ELSE ScanQuoted(s, k + 1, acc \o CharAt(s, k))

\* An identifier at the head of s: delimited, or a run of identifier characters.
ParseIdent(s) ==
    IF StartsWith(s, "\"") THEN ScanQuoted(s, 2, "")
    ELSE LET n == UnquotedLen(s) IN
         IF n = 0 \/ Contains(Digits, CharAt(s, 1)) THEN Fail
         ELSE [ok |-> TRUE, name |-> SubSeq(s, 1, n), rest |-> Drop(s, n)]

CastTail == " AS DATE)"
YmdHead  == "STRPTIME(CAST(t."
YmdTail  == " AS VARCHAR), '%Y%m%d') AS DATE)"

\* One COALESCE argument at the head of s: TRY_CAST(t.<ident> AS DATE), or
\* TRY_CAST(STRPTIME(CAST(t.<ident> AS VARCHAR), '%Y%m%d') AS DATE).
ParseCandidate(s) ==
    IF ~StartsWith(s, "TRY_CAST(") THEN Fail
    ELSE LET a == Drop(s, Len("TRY_CAST(")) IN
         IF StartsWith(a, YmdHead)
         THEN LET id == ParseIdent(Drop(a, Len(YmdHead))) IN
              IF id.ok /\ StartsWith(id.rest, YmdTail)
              THEN [ok |-> TRUE, kind |-> "ymd", col |-> id.name,
                    rest |-> Drop(id.rest, Len(YmdTail))]
              ELSE Fail
         ELSE IF StartsWith(a, "t.")
         THEN LET id == ParseIdent(Drop(a, 2)) IN
              IF id.ok /\ StartsWith(id.rest, CastTail)
              THEN [ok |-> TRUE, kind |-> "cast", col |-> id.name,
                    rest |-> Drop(id.rest, Len(CastTail))]
              ELSE Fail
         ELSE Fail

\* The arguments of COALESCE( ... ), up to the closing parenthesis that ends s.
RECURSIVE ParseArgs(_)
ParseArgs(s) ==
    LET c == ParseCandidate(s) IN
    IF ~c.ok THEN Fail
    ELSE IF c.rest = ")" THEN [ok |-> TRUE, cands |-> << [kind |-> c.kind, col |-> c.col] >>]
    ELSE IF StartsWith(c.rest, ", ")
         THEN LET more == ParseArgs(Drop(c.rest, 2)) IN
              IF more.ok
              THEN [ok |-> TRUE, cands |-> << [kind |-> c.kind, col |-> c.col] >> \o more.cands]
              ELSE Fail
    ELSE Fail

\* The date expression parsed: ok is FALSE on a syntax error.
ParseExpr(e) ==
    IF e = "NULL::DATE" THEN [ok |-> TRUE, cands |-> <<>>]
    ELSE IF StartsWith(e, "COALESCE(") THEN ParseArgs(Drop(e, Len("COALESCE(")))
    ELSE Fail

\* Identifiers resolve to a column without regard to case.
HasColumn(cs, name) == \E k \in 1..Len(cs) : lower(cs[k]) = lower(name)
ColumnIndex(cs, name) == CHOOSE k \in 1..Len(cs) : lower(cs[k]) = lower(name)

\* Every column reference of the parsed expression binds to a column of cs.
Binds(p, cs) == \A k \in 1..Len(p.cands) : HasColumn(cs, p.cands[k].col)

\* The statement is accepted: it parses and every reference binds.
ExprAccepted(e, cs) ==
    LET p == ParseExpr(e) IN p.ok /\ Binds(p, cs)

IsDateText(v) ==
    /\ Len(v) = 10
    /\ CharAt(v, 5) = "-" /\ CharAt(v, 8) = "-"
    /\ \A k \in {1, 2, 3, 4, 6, 7, 9, 10} : Contains(Digits, CharAt(v, k))

\* A cast that hands the text on as it is.
TryCastDate_keepsText(v) == v

\* TRY_CAST(v AS DATE): the date, or NULL when v is NULL or no date.
TryCastDate(v) == IF v # NULL /\ IsDateText(v) THEN v ELSE NULL

\* STRPTIME(v, '%Y%m%d'): eight digits read as a date.
StrptimeYmd(v) ==
    IF v # NULL /\ Len(v) = 8 /\ \A k \in 1..8 : Contains(Digits, CharAt(v, k))
    THEN SubSeq(v, 1, 4) \o "-" \o SubSeq(v, 5, 6) \o "-" \o SubSeq(v, 7, 8)
    ELSE NULL

EvalCandidate(c, cs, row) ==
    LET v == row[ColumnIndex(cs, c.col)] IN
    IF c.kind = "ymd" THEN TryCastDate(StrptimeYmd(v)) ELSE TryCastDate(v)

\* COALESCE: the first argument that is not NULL, NULL if there is none.
RECURSIVE Coalesce(_)
Coalesce(vals) ==
    IF Len(vals) = 0 THEN NULL
    ELSE IF vals[1] # NULL THEN vals[1]
    ELSE Coalesce(Tail(vals))

\* The value of the parsed candidates on one row of a table with columns cs.
EvalCands(cands, cs, row) ==
    Coalesce([k \in 1..Len(cands) |-> EvalCandidate(cands[k], cs, row)])

\* The value of an accepted date expression on one row.
EvalDateExpr(e, cs, row) == EvalCands(ParseExpr(e).cands, cs, row)

---------------------------------------------------------------------------
(* The database file *)

NoFile  == [exists |-> FALSE, tables |-> <<>>, views |-> <<>>, indexes |-> {}]
EmptyDb == [exists |-> TRUE,  tables |-> <<>>, views |-> <<>>, indexes |-> {}]

\* A database file an earlier run left behind.
OldDb ==
    [exists  |-> TRUE,
     tables  |-> ("dim_taxi_zone" :> [cols |-> <<"stale">>, rows |-> << <<"old">> >>])
                    @@ ("old_table" :> [cols |-> <<"stale">>, rows |-> << <<"old">> >>]),
     views   |-> ("v_dim_taxi_zone" :>
                    [from |-> "dim_taxi_zone", cols |-> <<"stale", "pickup_date">>,
                     date_expr |-> "NULL::DATE", plan |-> <<>>]),
     indexes |-> {"idx_dim_taxi_zone_date"}]

\* A statement that adds the rows to those the table held after the run before.
WithTable_mergesEarlier(db, name, t) ==
    LET held == IF run > 1 /\ first.exists /\ name \in DOMAIN first.tables
                THEN first.tables[name].rows ELSE <<>>
    IN  [db EXCEPT !.tables = (name :> [cols |-> t.cols, rows |-> held \o t.rows]) @@ @]

\* CREATE OR REPLACE TABLE name AS SELECT ...
WithTable(db, name, t) == [db EXCEPT !.tables = (name :> t) @@ @]
\* CREATE OR REPLACE VIEW name AS SELECT ...
WithView(db, name, v)  == [db EXCEPT !.views = (name :> v) @@ @]

\* SELECT COUNT(*) FROM tbl
count_rows(db, tbl) == Len(db.tables[tbl].rows)

\* PRAGMA table_info('tbl'): the column names, in the table's order
table_info(db, tbl) == db.tables[tbl].cols

\* A view is kept as its table, its column list, the text of its date
\* expression and that expression as the engine parsed it (plan).
\* Row r of a view: row r of its table with the columns the view keeps, then
\* the value of the date expression.
ViewRow(db, vname, r) ==
    LET v == db.views[vname]
        t == db.tables[v.from]
        n == Len(v.cols) - 1
    IN  [k \in 1..(n + 1) |->
            IF k <= n
            THEN t.rows[r][ColumnIndex(t.cols, v.cols[k])]
            ELSE EvalCands(v.plan, t.cols, t.rows[r])]

\* The rows of a view that keeps only the rows with a date.
ViewRows_onlyDated(db, vname) ==
    LET n == Len(db.tables[db.views[vname].from].rows)
        Dated(row) == row[Len(row)] # NULL
    IN  SelectSeq([r \in 1..n |-> ViewRow(db, vname, r)], Dated)

\* The rows a view yields: one per row of its table.
ViewRows(db, vname) ==
    [r \in 1..Len(db.tables[db.views[vname].from].rows) |-> ViewRow(db, vname, r)]

---------------------------------------------------------------------------
(* The ingestion builder, src/build_duckdb.py *)

FILES ==
    << [tbl |-> "dim_taxi_zone",         glob |-> "01_dim_taxi_zone/*.parquet"],
       [tbl |-> "pu_zone_daily",         glob |-> "02_fact_trips_sample/*.parquet"],
       [tbl |-> "daily_service_metrics", glob |-> "03_daily_service_metrics/*.parquet"],
       [tbl |-> "zone_pair_flow",        glob |-> "04_zone_pair_flow/*.parquet"],
       [tbl |-> "payment_mix",           glob |-> "05_payment_mix/*.parquet"],
       [tbl |-> "vendor_share",          glob |-> "06_vendor_share/*.parquet"],
       [tbl |-> "tip_hotspots",          glob |-> "07_tip_hotspots/*.parquet"],
       [tbl |-> "airport_traffic_daily", glob |-> "08_airport_traffic_daily/*.parquet"],
       [tbl |-> "service_efficiency",    glob |-> "09_service_efficiency/*.parquet"],
       [tbl |-> "rush_hour_pickups",     glob |-> "10_rush_hour_pickups/*.parquet"] >>

\* The tables of the index loop, in its order.
IDX_TABLES ==
    << "daily_service_metrics", "payment_mix", "airport_traffic_daily",
       "service_efficiency", "rush_hour_pickups", "pu_zone_daily",
       "zone_pair_flow", "tip_hotspots", "vendor_share" >>

\* The views the date-span query reads.
SPAN_VIEWS ==
    { "v_daily_service_metrics", "v_airport_traffic_daily", "v_service_efficiency",
      "v_rush_hour_pickups", "v_pu_zone_daily" }

\* resolve_source raises when glob.glob(pat) is empty.
resolve_source_raises(d, pattern_rel) == d[pattern_rel] = 0

\* SELECT * FROM read_parquet(pat, union_by_name=true)
read_parquet(d, pattern_rel) == Fixtures[d[pattern_rel]]

\* has_pd comparing the names as they are written.
has_pd_caseSensitive(cs) == \E k \in 1..Len(cs) : cs[k] = "pickup_date"

\* has_pd = any(c.lower() == "pickup_date" for c in cols)
has_pd(cs) == \E k \in 1..Len(cs) : lower(cs[k]) = "pickup_date"

\* The view's column list with t.* in both branches.
ViewColumns_noExclude(cs) == cs \o <<"pickup_date">>

\* The view's column list: t.* EXCLUDE (pickup_date) or t.*, then pickup_date.
ViewColumns(cs) ==
    LET Keep(c) == lower(c) # "pickup_date" IN
    IF has_pd(cs)
    THEN SelectSeq(cs, Keep) \o <<"pickup_date">>
    ELSE cs \o <<"pickup_date">>

view_name(tbl) == "v_" \o tbl

\* try_idx: CREATE INDEX IF NOT EXISTS name ON tbl(col), any exception swallowed.
\* The statement fails when the table has no such column.
IndexFails(db, tbl, col) == ~HasColumn(db.tables[tbl].cols, col)

try_idx(db, name, tbl, col) ==
    IF IndexFails(db, tbl, col) THEN db
    ELSE [db EXCEPT !.indexes = @ \cup {name}]

\* A start that opens the file an earlier run left as it is.
I_RemoveOld_keepsFile ==
    /\ prog = "ingest" /\ pc = "start"
    /\ pc' = "connect"
    /\ UNCHANGED <<dashVars, run, first, printed, prog, cols, expr, data, disk, i, exc, idxFailed>>

\* if os.path.exists(OUT_DB): os.remove(OUT_DB)
I_RemoveOld ==
    /\ prog = "ingest" /\ pc = "start"
    /\ disk' = NoFile
    /\ pc' = "connect"
    /\ UNCHANGED <<dashVars, run, first, printed, prog, cols, expr, data, i, exc, idxFailed>>

\* con = duckdb.connect(OUT_DB): the file is created
I_Connect ==
    /\ prog = "ingest" /\ pc = "connect"
    /\ disk' = IF disk.exists THEN disk ELSE EmptyDb
    /\ pc' = "tables"
    /\ i' = 1
    /\ UNCHANGED <<dashVars, run, first, printed, prog, cols, expr, data, exc, idxFailed>>

\* A table loop that creates the view of each table right after the table.
I_CreateTable_thenItsView ==
    /\ prog = "ingest" /\ pc = "tables"
    /\ LET f == FILES[i] IN
       IF resolve_source_raises(data, f.glob)
       THEN /\ exc' = "FileNotFoundError"
            /\ pc' = "crashed"
            /\ UNCHANGED <<disk, i, printed>>
       ELSE /\ \E t \in {read_parquet(data, f.glob)} :
                 disk' = WithView(WithTable(disk, f.tbl, t), view_name(f.tbl),
                                  [from |-> f.tbl, cols |-> ViewColumns(t.cols),
                                   date_expr |-> "NULL::DATE", plan |-> <<>>])
            /\ printed' = Append(printed, [tbl |-> f.tbl, cnt |-> count_rows(disk', f.tbl)])
            /\ IF i < Len(FILES)
               THEN i' = i + 1 /\ pc' = pc
               ELSE i' = 1 /\ pc' = "views"
            /\ exc' = exc
    /\ UNCHANGED <<dashVars, run, first, prog, cols, expr, data, idxFailed>>

\* One turn of the loop "for tbl, rel_glob in FILES" of step 1.
I_CreateTable ==
    /\ prog = "ingest" /\ pc = "tables"
    /\ LET f == FILES[i] IN
       IF resolve_source_raises(data, f.glob)
       THEN /\ exc' = "FileNotFoundError"
            /\ pc' = "crashed"
            /\ UNCHANGED <<disk, i, printed>>
       ELSE /\ disk' = WithTable(disk, f.tbl, read_parquet(data, f.glob))
            /\ printed' = Append(printed, [tbl |-> f.tbl, cnt |-> count_rows(disk', f.tbl)])
            /\ IF i < Len(FILES)
               THEN i' = i + 1 /\ pc' = pc
               ELSE i' = 1 /\ pc' = "views"
            /\ exc' = exc
    /\ UNCHANGED <<dashVars, run, first, prog, cols, expr, data, idxFailed>>

\* One turn of the loop "for tbl, _ in FILES" of step 2.
I_CreateView ==
    /\ prog = "ingest" /\ pc = "views"
    /\ LET tbl       == FILES[i].tbl
           cs        == table_info(disk, tbl)
           date_expr == build_date_expr(cs)
           parsed    == ParseExpr(date_expr)
       IN  IF parsed.ok /\ Binds(parsed, cs)
           THEN /\ disk' = WithView(disk, view_name(tbl),
                                    [from |-> tbl, cols |-> ViewColumns(cs),
                                     date_expr |-> date_expr, plan |-> parsed.cands])
                /\ IF i < Len(FILES)
                   THEN i' = i + 1 /\ pc' = pc
                   ELSE i' = 1 /\ pc' = "indexes"
                /\ exc' = exc
           ELSE /\ exc' = "ParserException"
                /\ pc' = "crashed"
                /\ UNCHANGED <<disk, i>>
    /\ UNCHANGED <<dashVars, run, first, printed, prog, cols, expr, data, idxFailed>>

\* One turn of the index loop of step 3: two try_idx calls.
I_CreateIndexes ==
    /\ prog = "ingest" /\ pc = "indexes"
    /\ LET tbl  == IDX_TABLES[i]
           n1   == "idx_" \o tbl \o "_date"
           n2   == "idx_" \o tbl \o "_svc"
           db1  == try_idx(disk, n1, tbl, "pickup_date")
           db2  == try_idx(db1, n2, tbl, "service_type")
       IN  /\ disk' = db2
           /\ idxFailed' = idxFailed
                \cup (IF IndexFails(disk, tbl, "pickup_date") THEN {n1} ELSE {})
                \cup (IF IndexFails(disk, tbl, "service_type") THEN {n2} ELSE {})
    /\ IF i < Len(IDX_TABLES)
       THEN i' = i + 1 /\ pc' = pc
       ELSE i' = 0 /\ pc' = "span"
    /\ UNCHANGED <<dashVars, run, first, printed, prog, cols, expr, data, exc>>

\* Step 4: the date span read from five views; a missing view would raise.
I_Span ==
    /\ prog = "ingest" /\ pc = "span"
    /\ IF SPAN_VIEWS \subseteq DOMAIN disk.views
       THEN pc' = "close" /\ exc' = exc
       ELSE pc' = "crashed" /\ exc' = "CatalogException"
    /\ UNCHANGED <<dashVars, run, first, printed, prog, cols, expr, data, disk, i, idxFailed>>

\* con.close(); print("Built ...")
I_Close ==
    /\ prog = "ingest" /\ pc = "close"
    /\ pc' = "done"
    /\ UNCHANGED <<dashVars, run, first, printed, prog, cols, expr, data, disk, i, exc, idxFailed>>

---------------------------------------------------------------------------
(* The snapshot builder, src/duckdb/build_duckdb.py *)

SRC_TRIPS   == "_cache/streamlit_trips_agg/*.parquet"
SRC_FLAGS   == "_cache/streamlit_fhvhv_flags/*.parquet"
SRC_DIMZONE == "_cache/dim_taxi_zone/*.parquet"

\* The three CREATE OR REPLACE TABLE statements, in order.
SNAP_TABLES ==
    << [tbl |-> "trips_agg",         glob |-> SRC_TRIPS],
       [tbl |-> "fhvhv_flags_daily", glob |-> SRC_FLAGS],
       [tbl |-> "dim_taxi_zone",     glob |-> SRC_DIMZONE] >>

\* The two CREATE INDEX statements, in order.
SNAP_INDEXES ==
    << [name |-> "idx_trips_date",    tbl |-> "trips_agg", col |-> "pickup_date"],
       [name |-> "idx_trips_service", tbl |-> "trips_agg", col |-> "service_type"] >>

\* ensure_inputs_exist: the globs that match no file
missing_inputs(d) == {g \in {SRC_TRIPS, SRC_FLAGS, SRC_DIMZONE} : d[g] = 0}

\* SELECT * FROM parquet_scan(pat, filename=true): a filename column is added
parquet_scan(d, pat) ==
    LET f == Fixtures[d[pat]] IN
    [cols |-> f.cols \o <<"filename">>,
     rows |-> [r \in 1..Len(f.rows) |-> f.rows[r] \o <<pat>>]]

\* os.makedirs(OUT_DIR, exist_ok=True); if os.path.exists(OUT_DB): os.remove(OUT_DB)
S_RemoveOld ==
    /\ prog = "snapshot" /\ pc = "start"
    /\ disk' = NoFile
    /\ pc' = "ensure"
    /\ UNCHANGED <<dashVars, run, first, printed, prog, cols, expr, data, i, exc, idxFailed>>

\* ensure_inputs_exist()
S_EnsureInputs ==
    /\ prog = "snapshot" /\ pc = "ensure"
    /\ IF missing_inputs(data) # {}
       THEN pc' = "crashed" /\ exc' = "FileNotFoundError"
       ELSE pc' = "connect" /\ exc' = exc
    /\ UNCHANGED <<dashVars, run, first, printed, prog, cols, expr, data, disk, i, idxFailed>>

\* con = duckdb.connect(OUT_DB)
S_Connect ==
    /\ prog = "snapshot" /\ pc = "connect"
    /\ disk' = IF disk.exists THEN disk ELSE EmptyDb
    /\ pc' = "tables"
    /\ i' = 1
    /\ UNCHANGED <<dashVars, run, first, printed, prog, cols, expr, data, exc, idxFailed>>

\* One of the three CREATE OR REPLACE TABLE statements.
S_CreateTable ==
    /\ prog = "snapshot" /\ pc = "tables"
    /\ LET f == SNAP_TABLES[i] IN
       disk' = WithTable(disk, f.tbl, parquet_scan(data, f.glob))
    /\ IF i < Len(SNAP_TABLES)
       THEN i' = i + 1 /\ pc' = pc
       ELSE i' = 1 /\ pc' = "indexes"
    /\ UNCHANGED <<dashVars, run, first, printed, prog, cols, expr, data, exc, idxFailed>>

\* One of the two CREATE INDEX statements: con.execute, no try around it.
S_CreateIndex ==
    /\ prog = "snapshot" /\ pc = "indexes"
    /\ LET x == SNAP_INDEXES[i] IN
       IF IndexFails(disk, x.tbl, x.col)
       THEN /\ idxFailed' = idxFailed \cup {x.name}
            /\ exc' = "BinderException"
            /\ pc' = "crashed"
            /\ UNCHANGED <<disk, i>>
       ELSE /\ disk' = [disk EXCEPT !.indexes = @ \cup {x.name}]
            /\ IF i < Len(SNAP_INDEXES)
               THEN i' = i + 1 /\ pc' = pc
               ELSE i' = 0 /\ pc' = "counts"
            /\ UNCHANGED <<exc, idxFailed>>
    /\ UNCHANGED <<dashVars, run, first, printed, prog, cols, expr, data>>

\* The row-count loop, con.close() and the final print.
S_Close ==
    /\ prog = "snapshot" /\ pc = "counts"
    /\ printed' = [k \in 1..Len(SNAP_TABLES) |->
                      [tbl |-> SNAP_TABLES[k].tbl, cnt |-> count_rows(disk, SNAP_TABLES[k].tbl)]]
    /\ pc' = "done"
    /\ UNCHANGED <<dashVars, run, first, prog, cols, expr, data, disk, i, exc, idxFailed>>

---------------------------------------------------------------------------
(* The script run again *)

MaxRuns == 2

IsBuilder == prog \in {"ingest", "snapshot"}
RunEnded  == pc \in {"done", "crashed"}

\* if __name__ == "__main__": main()  -- the builder is started once more, on
\* the same input directory and over the file the run before it left.
Rerun ==
    /\ IsBuilder /\ RunEnded
    /\ run < MaxRuns
    /\ run' = run + 1
    /\ first' = IF run = 1 THEN disk ELSE first
    /\ pc' = "start"
    /\ i' = 0
    /\ exc' = ""
    /\ idxFailed' = {}
    /\ printed' = <<>>
    /\ UNCHANGED <<dashVars, prog, cols, expr, data, disk>>

---------------------------------------------------------------------------
(* The databases the dashboards open *)

\* The engine accepts the view that step 2 of main writes for the columns cs.
ViewAccepted(cs) ==
    \E parsed \in {ParseExpr(build_date_expr(cs))} : parsed.ok /\ Binds(parsed, cs)

\* The number of views step 2 creates before one is rejected, from the k-th
\* entry of FILES on.
RECURSIVE ViewsMade(_, _)
ViewsMade(tabs, k) ==
    IF k > Len(FILES) THEN Len(FILES)
    ELSE IF ViewAccepted(tabs[FILES[k].tbl].cols) THEN ViewsMade(tabs, k + 1)
    ELSE k - 1

\* The file a run leaves that read the tables tabs and created the first n
\* views: indexed only when no view was rejected.
BuiltUpTo(tabs, n) ==
    LET viewOf(t) ==
            LET cs == tabs[t].cols
                date_expr == build_date_expr(cs)
            IN  [from |-> t, cols |-> ViewColumns(cs),
                 date_expr |-> date_expr, plan |-> ParseExpr(date_expr).cands]
        idx(col, suffix) ==
            {"idx_" \o IDX_TABLES[k] \o suffix :
                k \in {j \in 1..Len(IDX_TABLES) : HasColumn(tabs[IDX_TABLES[j]].cols, col)}}
    IN  [exists  |-> TRUE,
         tables  |-> tabs,
         views   |-> [v \in {view_name(FILES[k].tbl) : k \in 1..n} |->
                         viewOf(CHOOSE t \in DOMAIN tabs : view_name(t) = v)],
         indexes |-> IF n = Len(FILES)
                     THEN idx("pickup_date", "_date") \cup idx("service_type", "_svc")
                     ELSE {}]

\* The file a run of the ingestion builder leaves, for the tables tabs it
\* read: steps 1 to 3 of main.  A view whose date expression the engine
\* rejects ends the run there, with the views before it and no index.
IngestBuilt(tabs) ==
    CHOOSE db \in {BuiltUpTo(tabs, n) : n \in {ViewsMade(tabs, 1)}} : TRUE

\* The file a finished run of the snapshot builder leaves, for the inputs
\* src (table -> what its glob holds).
SnapshotBuilt(src) ==
    LET scan(k) ==
            LET f == src[SNAP_TABLES[k].tbl] IN
            [cols |-> f.cols \o <<"filename">>,
             rows |-> [r \in 1..Len(f.rows) |-> f.rows[r] \o <<SNAP_TABLES[k].glob>>]]
    IN  [exists  |-> TRUE,
         tables  |-> [t \in {SNAP_TABLES[k].tbl : k \in 1..Len(SNAP_TABLES)} |->
                         scan(CHOOSE k \in 1..Len(SNAP_TABLES) : SNAP_TABLES[k].tbl = t)],
         views   |-> <<>>,
         indexes |-> {SNAP_INDEXES[k].name : k \in 1..Len(SNAP_INDEXES)}]

\* Every dataset folder holds the same export.
Uniform(f) == [t \in {FILES[k].tbl : k \in 1..Len(FILES)} |-> Fixtures[f]]

\* Every dataset folder holds the export of its name.
Exports ==
    [t \in {FILES[k].tbl : k \in 1..Len(FILES)} |->
        CASE t = "service_efficiency" -> EFFICIENCY
          [] t \in {"tip_hotspots", "zone_pair_flow"} -> UNDATED
          [] t \in {"dim_taxi_zone", "vendor_share"} -> Fixtures[1]
          [] OTHER -> DAILY]

\* The export t of a window that starts on the second day of the month.
LateStart(t) ==
    [cols |-> t.cols,
     rows |-> [r \in 1..Len(t.rows) |->
                 [c \in 1..Len(t.cols) |->
                     IF t.rows[r][c] = "2024-07-01" THEN "2024-07-02" ELSE t.rows[r][c]]]]

\* The files the ingestion dashboard may find: none, one a failed build left
\* without views, and complete ones.
IngestDbs ==
    {NoFile, EmptyDb}
        \cup {IngestBuilt(tabs) :
                 tabs \in {Exports, [t \in DOMAIN Exports |-> LateStart(Exports[t])]}
                           \cup {Uniform(f) : f \in {1, 2, 4}}}

\* The files the snapshot dashboard may find: none, a complete one, and one
\* whose trip aggregate has no rows.
SnapshotDbs ==
    {NoFile}
        \cup {SnapshotBuilt([trips_agg |-> t, fhvhv_flags_daily |-> FLAGS,
                             dim_taxi_zone |-> Fixtures[1]]) :
                 t \in {TRIPS_AGG, LateStart(TRIPS_AGG), [TRIPS_AGG EXCEPT !.rows = <<>>]}}

---------------------------------------------------------------------------
(* Frames, dates and numbers of the dashboards *)

\* "name in df.columns", and the place of that column
HasCol(cs, name) == \E k \in 1..Len(cs) : cs[k] = name
ColPos(cs, name) == CHOOSE k \in 1..Len(cs) : cs[k] = name

\* con.sql("SELECT * FROM v").df(): the rows of a view as a frame
load_view(db, v) == [cols |-> db.views[v].cols, rows |-> ViewRows(db, v)]

\* int() of a text of digits
DigitVal(c) == CHOOSE d \in 0..9 : CharAt(Digits, d + 1) = c
RECURSIVE ToNat(_)
ToNat(s) ==
    IF Len(s) = 0 THEN 0
    ELSE 10 * ToNat(SubSeq(s, 1, Len(s) - 1)) + DigitVal(CharAt(s, Len(s)))

\* A date as a number that orders as datetime.date does.
DateNum(v) ==
    ToNat(SubSeq(v, 1, 4)) * 10000 + ToNat(SubSeq(v, 6, 7)) * 100 + ToNat(SubSeq(v, 9, 10))

\* The days the sidebar offers, and their order computed once.
Days == {"2024-07-01", "2024-07-02", "2024-07-03"}
DateMemo == [d \in Days |-> DateNum(d)]
date_ord(v) == IF v \in DOMAIN DateMemo THEN DateMemo[v] ELSE DateNum(v)

\* A comparison that leaves the equal dates out.
DateLE_strict(a, b) == date_ord(a) < date_ord(b)

\* a <= b on dates
DateLE(a, b) == date_ord(a) <= date_ord(b)

\* pd.to_datetime(v, errors="coerce"): the date, or NaT (NULL here)
to_datetime(v) == IF v # NULL /\ IsDateText(v) THEN v ELSE NULL

\* df[name].sum(): the sum of the numbers of a column, missing values skipped
RECURSIVE SumCells(_, _)
SumCells(rows, k) ==
    IF Len(rows) = 0 THEN 0
    ELSE (IF rows[1][k] = NULL THEN 0 ELSE ToNat(rows[1][k])) + SumCells(Tail(rows), k)

\* The values of a column that are not missing.
ColValues(df, name) ==
    {df.rows[r][ColPos(df.cols, name)] : r \in 1..Len(df.rows)} \ {NULL}

\* The dates of a frame's pickup_date column: to_datetime(...).dropna()
FrameDates(df) ==
    IF HasCol(df.cols, "pickup_date")
    THEN {to_datetime(v) : v \in ColValues(df, "pickup_date")} \ {NULL}
    ELSE {}

\* min() and max() of a set of dates
MinDate(ds) == CHOOSE d \in ds : \A e \in ds : date_ord(d) <= date_ord(e)
MaxDate(ds) == CHOOSE d \in ds : \A e \in ds : date_ord(e) <= date_ord(d)

\* Widget values before the first script run, and the sidebar's offer and the
\* KPI row before they are computed.
NoSel  == [start_date |-> "", end_date |-> "", services |-> {}, exclude_unknown |-> TRUE,
           eff_svc |-> "", pair_svc |-> ""]
NoOpts == [min_date |-> "", max_date |-> "", services |-> {},
           default_start |-> "", default_end |-> ""]
NoKpi  == [trips |-> 0, revenue |-> 0, rows |-> 0, shown |-> FALSE]

---------------------------------------------------------------------------
(* The ingestion dashboard, src/streamlit_app.py *)

\* The views loaded at start-up, in order.
LOADED_VIEWS ==
    << "v_dim_taxi_zone", "v_pu_zone_daily", "v_daily_service_metrics",
       "v_zone_pair_flow", "v_payment_mix", "v_tip_hotspots",
       "v_airport_traffic_daily", "v_service_efficiency", "v_rush_hour_pickups" >>

\* The frames the date range and the service list are read from.
DATE_FRAMES ==
    << "v_daily_service_metrics", "v_airport_traffic_daily", "v_service_efficiency",
       "v_rush_hour_pickups", "v_pu_zone_daily" >>
SERVICE_FRAMES ==
    << "v_pu_zone_daily", "v_daily_service_metrics", "v_payment_mix",
       "v_airport_traffic_daily", "v_service_efficiency", "v_rush_hour_pickups" >>

DEFAULT_SERVICES == {"yellow", "green", "fhv", "fhvhv"}
ALLOWED == {"yellow", "green", "fhvhv"}
ALL_SERVICES_CHOICE == "All services"

\* An existence test that finds every file.
path_exists_always(db) == TRUE

\* DB_PATH.exists()
path_exists(db) == db.exists

\* A connection that creates the file it does not find.
connect_read_only_creating(db) ==
    [ok |-> TRUE, db |-> IF db.exists THEN db ELSE EmptyDb]

\* duckdb.connect(path, read_only=True): fails on a missing file and never
\* changes the file.
connect_read_only(db) == [ok |-> db.exists, db |-> db]

\* filter_by_date_service(df, start_date, end_date, services)
filter_by_date_service(df, start_date, end_date, services) ==
    IF df.rows = <<>> THEN df
    ELSE
      LET dated == HasCol(df.cols, "pickup_date")
          InRange(row) ==
              LET d == to_datetime(row[ColPos(df.cols, "pickup_date")]) IN
              d # NULL /\ DateLE(start_date, d) /\ DateLE(d, end_date)
          out1 == IF dated /\ FrameDates(df) # {}
                  THEN SelectSeq(df.rows, InRange)
                  ELSE df.rows
          InServices(row) == row[ColPos(df.cols, "service_type")] \in services
          out2 == IF HasCol(df.cols, "service_type") /\ services # {}
                  THEN SelectSeq(out1, InServices)
                  ELSE out1
      IN  [cols |-> df.cols, rows |-> out2]

\* The ten tabs: the frame of each, where its service list comes from (the
\* sidebar, the sidebar cut to the allowed services, or the tab's own select
\* box), the columns it needs, and the columns "Exclude Unknown zones" tests.
TABS ==
    << [frame |-> "v_daily_service_metrics", svc |-> "sidebar", own |-> "",
        need |-> {"pickup_date", "service_type", "trips"}, unknown |-> {}],
       [frame |-> "v_pu_zone_daily", svc |-> "sidebar", own |-> "",
        need |-> {"pu_borough", "pu_zone", "trips"}, unknown |-> {"pu_borough", "pu_zone"}],
       [frame |-> "v_rush_hour_pickups", svc |-> "sidebar", own |-> "",
        need |-> {"hour", "trips"}, unknown |-> {}],
       [frame |-> "v_service_efficiency", svc |-> "own", own |-> "eff_svc",
        need |-> {"pu_borough", "avg_duration_min"}, unknown |-> {"pu_borough"}],
       [frame |-> "v_daily_service_metrics", svc |-> "allowed", own |-> "",
        need |-> {"pickup_date", "service_type", "revenue", "trips", "miles"}, unknown |-> {}],
       [frame |-> "v_tip_hotspots", svc |-> "allowed", own |-> "",
        need |-> {"service_type", "pu_borough", "pu_zone", "tip_pct"},
        unknown |-> {"pu_borough", "pu_zone"}],
       [frame |-> "v_zone_pair_flow", svc |-> "own", own |-> "pair_svc",
        need |-> {"pu_borough", "do_borough", "trips"}, unknown |-> {"pu_borough", "do_borough"}],
       [frame |-> "v_payment_mix", svc |-> "allowed", own |-> "",
        need |-> {"pickup_date", "service_type", "payment_type", "share"}, unknown |-> {}],
       [frame |-> "v_daily_service_metrics", svc |-> "sidebar", own |-> "",
        need |-> {"pickup_date", "service_type", "trips"}, unknown |-> {}],
       [frame |-> "v_airport_traffic_daily", svc |-> "allowed", own |-> "",
        need |-> {"pickup_date", "service_type", "airport_fees"}, unknown |-> {}] >>

\* The tab whose rows named Newark Airport are dropped.
TIP_TAB == 6

\* The service list tab n hands to filter_by_date_service.
TabServices(n, w) ==
    CASE TABS[n].svc = "sidebar" -> w.services
      [] TABS[n].svc = "allowed" -> w.services \cap ALLOWED
      [] TABS[n].svc = "own" ->
            IF w[TABS[n].own] = ALL_SERVICES_CHOICE THEN {} ELSE {w[TABS[n].own]}

\* The choices of a tab's own select box over frame df.
OwnChoices(df) ==
    {ALL_SERVICES_CHOICE}
        \cup (IF HasCol(df.cols, "service_type")
              THEN {df.rows[r][ColPos(df.cols, "service_type")] : r \in 1..Len(df.rows)}
              ELSE {})

\* What tab n renders from the loaded frames fs under the widget values w:
\* a chart over the rows it aggregates, or an informational message.
RenderTab(n, fs, w) ==
    LET t  == TABS[n]
        df == filter_by_date_service(fs[t.frame], w.start_date, w.end_date, TabServices(n, w))
        Known(row) == \A c \in t.unknown : row[ColPos(df.cols, c)] # "Unknown"
        NotNewark(row) == lower(row[ColPos(df.cols, "pu_zone")]) # "newark airport"
        kept1 == IF w.exclude_unknown THEN SelectSeq(df.rows, Known) ELSE df.rows
        kept2 == IF n = TIP_TAB THEN SelectSeq(kept1, NotNewark) ELSE kept1
    IN  IF df.rows # <<>> /\ \A c \in t.need : HasCol(df.cols, c)
        THEN [kind |-> "chart", cols |-> df.cols, rows |-> kept2]
        ELSE [kind |-> "info", cols |-> df.cols, rows |-> <<>>]

\* The month of a date, its first day and its last day
\* (Period.start_time.date(), Period.end_time.date()).
month_of(d) == SubSeq(d, 1, 7)
month_start(d) == month_of(d) \o "-01"
month_end(d) ==
    LET y == ToNat(SubSeq(d, 1, 4))
        m == ToNat(SubSeq(d, 6, 7))
        leap == y % 4 = 0 /\ (y % 100 # 0 \/ y % 400 = 0)
    IN  month_of(d) \o
           (IF m \in {4, 6, 9, 11} THEN "-30"
            ELSE IF m # 2 THEN "-31"
            ELSE IF leap THEN "-29" ELSE "-28")

\* The dated cells of the first k date frames that fall in month m:
\* all_dates.dt.to_period("M").value_counts()[m]
RECURSIVE MonthCount(_, _, _)
MonthCount(fs, m, k) ==
    IF k = 0 THEN 0
    ELSE LET df == fs[DATE_FRAMES[k]]
             here == IF HasCol(df.cols, "pickup_date")
                     THEN Cardinality({r \in 1..Len(df.rows) :
                             LET d == to_datetime(df.rows[r][ColPos(df.cols, "pickup_date")]) IN
                             d # NULL /\ month_of(d) = m})
                     ELSE 0
         IN  here + MonthCount(fs, m, k - 1)

\* counts.idxmax(): a month with the most dated cells
default_period(fs, all_dates) ==
    CHOOSE m \in {month_of(d) : d \in all_dates} :
        \A n \in {month_of(d) : d \in all_dates} :
            MonthCount(fs, n, Len(DATE_FRAMES)) <= MonthCount(fs, m, Len(DATE_FRAMES))

\* The dates of the date frames; the frames without a dated row are left out.
AllDates(fs) == UNION {FrameDates(fs[DATE_FRAMES[k]]) : k \in 1..Len(DATE_FRAMES)}

\* all_services: the services of the service frames, or the default list
all_services(fs) ==
    LET with == {k \in 1..Len(SERVICE_FRAMES) :
                    LET df == fs[SERVICE_FRAMES[k]] IN
                    df.rows # <<>> /\ HasCol(df.cols, "service_type")}
    IN  IF with = {} THEN DEFAULT_SERVICES
        ELSE UNION {ColValues(fs[SERVICE_FRAMES[k]], "service_type") : k \in with}

\* The widget values of a first script run.
Defaults(fs) ==
    LET all == AllDates(fs)
        period == default_period(fs, all)
        first_day == period \o "-01"
    IN  [start_date |-> month_start(first_day),
         end_date   |-> IF DateLE(month_end(first_day), MaxDate(all))
                        THEN month_end(first_day) ELSE MaxDate(all),
         services   |-> all_services(fs),
         exclude_unknown |-> TRUE,
         eff_svc    |-> ALL_SERVICES_CHOICE,
         pair_svc   |-> ALL_SERVICES_CHOICE]

\* The widget values after the user has changed one widget: the date range,
\* the services, the Unknown check box or one of the two select boxes.
OneWidgetChanged(w, o, fs) ==
    LET offered == {d \in Days : DateLE(o.min_date, d) /\ DateLE(d, o.max_date)} IN
    { [w EXCEPT !.start_date = a, !.end_date = b] :
         a \in offered, b \in {d \in offered : TRUE} }
    \cup { [w EXCEPT !.services = sv] : sv \in SUBSET o.services }
    \cup { [w EXCEPT !.exclude_unknown = ~@] }
    \cup { [w EXCEPT !.eff_svc = e] : e \in OwnChoices(fs["v_service_efficiency"]) }
    \cup { [w EXCEPT !.pair_svc = p] : p \in OwnChoices(fs["v_zone_pair_flow"]) }

\* st.date_input(value=(a, b), min_value=lo, max_value=hi): the releases of
\* Streamlit that validate the default raise StreamlitAPIException when it
\* does not lie between min_value and max_value; the others accept it.
date_input_may_raise(a, b, lo, hi) == ~(DateLE(lo, a) /\ DateLE(b, hi))

\* Lines 27-32: the existence test, st.error and st.stop, else the connection.
D_Open ==
    /\ prog = "dash" /\ pc = "start"
    /\ IF ~path_exists(disk)
       THEN /\ ui' = Append(ui, "error")
            /\ pc' = "stopped"
            /\ UNCHANGED <<disk, exc>>
       ELSE LET c == connect_read_only(disk) IN
            /\ disk' = c.db
            /\ IF c.ok THEN pc' = "load" /\ exc' = exc
                       ELSE pc' = "crashed" /\ exc' = "IOException"
            /\ ui' = ui
    /\ UNCHANGED <<frames, opts, sel, kpi, panels, nq>>
    /\ UNCHANGED <<arg, ret, run, first, printed, prog, cols, expr, data, i, idxFailed>>

\* Lines 35-43: nine SELECT * FROM v_..., each raising on a missing view.
D_Load ==
    /\ prog = "dash" /\ pc = "load"
    /\ LET missing == {k \in 1..Len(LOADED_VIEWS) : LOADED_VIEWS[k] \notin DOMAIN disk.views} IN
       IF missing = {}
       THEN /\ frames' = [v \in Range(LOADED_VIEWS) |-> load_view(disk, v)]
            /\ nq' = nq + Len(LOADED_VIEWS)
            /\ pc' = "filters"
            /\ exc' = exc
       ELSE /\ nq' = nq + (CHOOSE k \in missing : \A j \in missing : k <= j)
            /\ pc' = "crashed"
            /\ exc' = "CatalogException"
            /\ frames' = frames
    /\ UNCHANGED <<opts, sel, kpi, ui, panels>>
    /\ UNCHANGED <<arg, ret, run, first, printed, prog, cols, expr, data, disk, i, idxFailed>>

\* Lines 139-163: the date range of the data, the defaults and the sidebar.
D_Filters ==
    /\ prog = "dash" /\ pc = "filters"
    /\ LET all_dates == AllDates(frames) IN
       IF all_dates = {}
       THEN /\ ui' = Append(ui, "error")
            /\ pc' = "stopped"
            /\ UNCHANGED <<opts, sel, exc>>
       ELSE \E d \in {Defaults(frames)} :
            /\ opts' = [min_date |-> MinDate(all_dates),
                        max_date |-> MaxDate(all_dates),
                        services |-> d.services,
                        default_start |-> d.start_date,
                        default_end   |-> d.end_date]
            /\ \/ /\ sel' = IF sel = NoSel THEN d ELSE sel
                  /\ ui' = Append(ui, "sidebar")
                  /\ pc' = "kpis"
                  /\ exc' = exc
               \/ /\ date_input_may_raise(d.start_date, d.end_date,
                                          opts'.min_date, opts'.max_date)
                  /\ exc' = "StreamlitAPIException"
                  /\ pc' = "crashed"
                  /\ UNCHANGED <<sel, ui>>
    /\ UNCHANGED <<frames, kpi, panels, nq>>
    /\ UNCHANGED <<arg, ret, run, first, printed, prog, cols, expr, data, disk, i, idxFailed>>

\* Lines 176-203: the KPI row, summed over the filtered daily metrics.
D_Kpis ==
    /\ prog = "dash" /\ pc = "kpis"
    /\ LET daily_metrics == frames["v_daily_service_metrics"]
           dm == filter_by_date_service(daily_metrics, sel.start_date, sel.end_date, sel.services)
           total(c) == IF daily_metrics.rows # <<>> /\ HasCol(dm.cols, c)
                       THEN SumCells(dm.rows, ColPos(dm.cols, c)) ELSE 0
       IN  kpi' = [trips |-> total("trips"), revenue |-> total("revenue"),
                   rows |-> IF daily_metrics.rows # <<>> THEN Len(dm.rows) ELSE 0,
                   shown |-> TRUE]
    /\ ui' = Append(ui, "kpis")
    /\ pc' = "tabs"
    /\ i' = 1
    /\ UNCHANGED <<frames, opts, sel, panels, nq>>
    /\ UNCHANGED <<arg, ret, run, first, printed, prog, cols, expr, data, disk, exc, idxFailed>>

\* One of the ten "with tabs[n]:" blocks, lines 221-528.
D_Tab ==
    /\ prog = "dash" /\ pc = "tabs"
    /\ panels' = Append(panels, RenderTab(i, frames, sel))
    /\ IF i < Len(TABS)
       THEN i' = i + 1 /\ pc' = pc
       ELSE i' = 0 /\ pc' = "rendered"
    /\ UNCHANGED <<frames, opts, sel, kpi, ui, nq>>
    /\ UNCHANGED <<arg, ret, run, first, printed, prog, cols, expr, data, disk, exc, idxFailed>>

\* The user changes a widget: Streamlit runs the script again from the top
\* with the new widget values.
D_Interact ==
    /\ prog = "dash" /\ pc = "rendered"
    /\ \E w \in OneWidgetChanged(sel, opts, frames) :
          /\ DateLE(w.start_date, w.end_date)
          /\ w # sel
          /\ sel' = w
    /\ pc' = "start"
    /\ frames' = <<>> /\ opts' = NoOpts /\ kpi' = NoKpi
    /\ ui' = <<>> /\ panels' = <<>> /\ nq' = 0
    /\ UNCHANGED <<arg, ret, run, first, printed, prog, cols, expr, data, disk, i, exc, idxFailed>>

---------------------------------------------------------------------------
(* The snapshot dashboard, src/streamlit/app/streamlit_app.py *)

\* The ten tabs: the table of each query, whether its WHERE clause holds the
\* sidebar's service list ("sidebar"), that list and the three allowed
\* services ("allowed") or no service test ("none"), the columns that
\* "Exclude Unknown zones" tests, and what the tab shows for an empty result.
APP_TABS ==
    << [table |-> "trips_agg", svc |-> "sidebar", unknown |-> {}, empty |-> "chart"],
       [table |-> "trips_agg", svc |-> "sidebar",
        unknown |-> {"pu_borough", "pu_zone"}, empty |-> "none"],
       [table |-> "trips_agg", svc |-> "sidebar", unknown |-> {}, empty |-> "chart"],
       [table |-> "trips_agg", svc |-> "sidebar", unknown |-> {"pu_borough"}, empty |-> "none"],
       [table |-> "trips_agg", svc |-> "allowed", unknown |-> {}, empty |-> "chart"],
       [table |-> "trips_agg", svc |-> "allowed",
        unknown |-> {"pu_borough", "pu_zone"}, empty |-> "none"],
       [table |-> "trips_agg", svc |-> "sidebar",
        unknown |-> {"pu_borough", "pu_zone", "do_borough", "do_zone"}, empty |-> "none"],
       [table |-> "trips_agg", svc |-> "allowed", unknown |-> {}, empty |-> "chart"],
       [table |-> "trips_agg", svc |-> "allowed", unknown |-> {}, empty |-> "chart"],
       [table |-> "fhvhv_flags_daily", svc |-> "none", unknown |-> {}, empty |-> "info"] >>

\* The tab that issues a second query (the detail table of tab 10).
FLAGS_TAB == 10

\* The rows a query's WHERE clause selects from table t:
\*   pickup_date BETWEEN :start_date AND :end_date
\*   [AND service_type IN ('yellow','green','fhvhv')]
\*   [AND service_type IN (SELECT * FROM UNNEST(:service_types))]
\*   [AND <column> <> 'Unknown' ...]
\* GROUP BY, HAVING, ORDER BY and LIMIT act on these rows afterwards.
sql_where(t, svc, unknown, w) ==
    LET Selected(row) ==
            LET d == row[ColumnIndex(t.cols, "pickup_date")] IN
            /\ d # NULL /\ DateLE(w.start_date, d) /\ DateLE(d, w.end_date)
            /\ svc = "allowed" => row[ColumnIndex(t.cols, "service_type")] \in ALLOWED
            /\ svc # "none" => row[ColumnIndex(t.cols, "service_type")] \in w.services
            /\ w.exclude_unknown =>
                  \A c \in unknown : row[ColumnIndex(t.cols, c)] # "Unknown"
    IN  SelectSeq(t.rows, Selected)

\* SUM(column) over the selected rows as the frame holds it: NaN when no row
\* was selected (SQL NULL), else the sum.
sql_sum(t, rows, c) ==
    IF rows = <<>> THEN [nan |-> TRUE, val |-> 0]
    ELSE [nan |-> FALSE, val |-> SumCells(rows, ColumnIndex(t.cols, c))]

\* int(v or 0) raises ValueError on NaN: NaN is truthy, so "or 0" keeps it.
int_or_zero_raises(v) == v.nan

\* Lines 11-15: the connection, or st.error and st.stop when it fails.
A_Connect ==
    /\ prog = "app" /\ pc = "start"
    /\ LET c == connect_read_only(disk) IN
       /\ disk' = c.db
       /\ IF c.ok
          THEN pc' = "filters" /\ ui' = ui
          ELSE pc' = "stopped" /\ ui' = Append(ui, "error")
    /\ UNCHANGED <<frames, opts, sel, kpi, panels, nq>>
    /\ UNCHANGED <<arg, ret, run, first, printed, prog, cols, expr, data, i, exc, idxFailed>>

\* Lines 86-115: the date span of trips_agg, the July default and the sidebar.
A_Filters ==
    /\ prog = "app" /\ pc = "filters"
    /\ LET trips == disk.tables["trips_agg"]
           dates == ColValues(trips, "pickup_date")
           july  == {d \in dates : SubSeq(d, 6, 7) = "07"}
           found == ColValues(trips, "service_type")
       IN  IF dates = {}
           THEN /\ nq' = nq + 1
                /\ ui' = Append(ui, "error")
                /\ pc' = "stopped"
                /\ UNCHANGED <<opts, sel>>
           ELSE /\ nq' = nq + 3
                /\ opts' = [min_date |-> MinDate(dates), max_date |-> MaxDate(dates),
                            services |-> IF found = {} THEN DEFAULT_SERVICES ELSE found,
                            default_start |-> IF july # {} THEN MinDate(july) ELSE MinDate(dates),
                            default_end   |-> IF july # {} THEN MaxDate(july) ELSE MaxDate(dates)]
                /\ sel' = IF sel = NoSel
                          THEN [start_date |-> opts'.default_start,
                                end_date   |-> opts'.default_end,
                                services   |-> opts'.services,
                                exclude_unknown |-> TRUE,
                                eff_svc |-> "", pair_svc |-> ""]
                          ELSE sel
                /\ ui' = Append(ui, "sidebar")
                /\ pc' = "kpis"
    /\ UNCHANGED <<frames, kpi, panels>>
    /\ UNCHANGED <<arg, ret, run, first, printed, prog, cols, expr, data, disk, i, exc, idxFailed>>

\* Lines 118-143: the KPI query and the six metrics.
A_Kpis ==
    /\ prog = "app" /\ pc = "kpis"
    /\ nq' = nq + 1
    /\ LET trips == disk.tables["trips_agg"]
           rows  == sql_where(trips, "sidebar", {}, sel)
           total == sql_sum(trips, rows, "trips")
       IN  IF int_or_zero_raises(total)
           THEN /\ exc' = "ValueError"
                /\ pc' = "crashed"
                /\ UNCHANGED <<kpi, ui, i>>
           ELSE /\ kpi' = [trips |-> total.val,
                           revenue |-> SumCells(rows, ColumnIndex(trips.cols, "revenue")),
                           rows |-> Len(rows), shown |-> TRUE]
                /\ ui' = Append(ui, "kpis")
                /\ pc' = "tabs"
                /\ i' = 1
                /\ exc' = exc
    /\ UNCHANGED <<frames, opts, sel, panels>>
    /\ UNCHANGED <<arg, ret, run, first, printed, prog, cols, expr, data, disk, idxFailed>>

\* One of the ten "with tabs[n]:" blocks, lines 164-386.
A_Tab ==
    /\ prog = "app" /\ pc = "tabs"
    /\ LET t    == APP_TABS[i]
           tab  == disk.tables[t.table]
           rows == sql_where(tab, t.svc, t.unknown, sel)
       IN  panels' = Append(panels,
                [kind |-> IF rows = <<>> THEN t.empty ELSE "chart",
                 cols |-> tab.cols, rows |-> rows])
    /\ nq' = nq + (IF i = FLAGS_TAB THEN 2 ELSE 1)
    /\ IF i < Len(APP_TABS)
       THEN i' = i + 1 /\ pc' = pc
       ELSE i' = 0 /\ pc' = "rendered"
    /\ UNCHANGED <<frames, opts, sel, kpi, ui>>
    /\ UNCHANGED <<arg, ret, run, first, printed, prog, cols, expr, data, disk, exc, idxFailed>>

\* The user changes a sidebar widget: the script runs again from the top.
\* The sidebar is on the page once it has been rendered, whether or not the
\* run went on to its end.
A_Interact ==
    /\ prog = "app" /\ pc \in {"rendered", "crashed"}
    /\ opts # NoOpts
    /\ \E w \in { [sel EXCEPT !.start_date = a, !.end_date = b] :
                     a \in Days, b \in Days }
                 \cup { [sel EXCEPT !.services = sv] : sv \in SUBSET opts.services }
                 \cup { [sel EXCEPT !.exclude_unknown = ~@] } :
          /\ DateLE(opts.min_date, w.start_date) /\ DateLE(w.start_date, w.end_date)
          /\ DateLE(w.end_date, opts.max_date)
          /\ w # sel
          /\ sel' = w
    /\ pc' = "start"
    /\ exc' = ""
    /\ i' = 0
    /\ frames' = <<>> /\ opts' = NoOpts /\ kpi' = NoKpi
    /\ ui' = <<>> /\ panels' = <<>> /\ nq' = 0
    /\ UNCHANGED <<arg, ret, run, first, printed, prog, cols, expr, data, disk, idxFailed>>

---------------------------------------------------------------------------
(* The weekly rollup of the two dashboards: weekly_rollup of                *)
(* src/streamlit_app.py and maybe_weekly of src/streamlit/app/streamlit_app.py *)

\* str(n) of a sum
RECURSIVE NatText(_)
NatText(n) ==
    IF n < 10 THEN CharAt(Digits, n + 1)
    ELSE NatText(n \div 10) \o CharAt(Digits, (n % 10) + 1)

\* dt.to_period("W").start_time.normalize(): the Monday of the date's week,
\* NaT for NaT. ordinal is the day's number in the proleptic Gregorian
\* calendar (1 = 0001-01-01, a Monday), back its day of the week (0 = Monday),
\* and the Monday is back days before the date, in the same month or in the
\* one before it.
week_start(v) ==
    IF v = NULL THEN NULL
    ELSE LET y == ToNat(SubSeq(v, 1, 4))
             m == ToNat(SubSeq(v, 6, 7))
             d == ToNat(SubSeq(v, 9, 10))
             IsLeap(yy) == yy % 4 = 0 /\ (yy % 100 # 0 \/ yy % 400 = 0)
             DaysIn(yy, mm) ==
                 IF mm \in {4, 6, 9, 11} THEN 30
                 ELSE IF mm # 2 THEN 31
                 ELSE IF IsLeap(yy) THEN 29 ELSE 28
             before == <<0, 31, 59, 90, 120, 151, 181, 212, 243, 273, 304, 334>>
             dayOfYear == before[m] + (IF m > 2 /\ IsLeap(y) THEN 1 ELSE 0) + d
             p == y - 1
             ordinal == 365 * p + (p \div 4) - (p \div 100) + (p \div 400) + dayOfYear
             back == (ordinal - 1) % 7
             Two(n) == CharAt(Digits, (n \div 10) + 1) \o CharAt(Digits, (n % 10) + 1)
             Text(yy, mm, dd) ==
                 Two(yy \div 100) \o Two(yy % 100) \o "-" \o Two(mm) \o "-" \o Two(dd)
         IN  IF d > back THEN Text(y, m, d - back)
             ELSE IF m > 1 THEN Text(y, m - 1, DaysIn(y, m - 1) + d - back)
             ELSE Text(y - 1, 12, 31 + d - back)

\* dfx.groupby(["week"] + dims, as_index=False).agg(sum), then the rename of
\* week to date_col: the rows are grouped by the Monday of their week and
\* their cells in the columns dims; a row with a missing value in a key is in
\* no group (groupby's dropna=True); the groups come out in the order of their
\* keys (the order of Python strings on the cells, which on dates is the order
\* of the days), each with the sums of the columns sum_cols.
weekly_sums(df, date_col, dims, sum_cols) ==
    LET dpos == ColPos(df.cols, date_col)
        kpos == [k \in 1..Len(dims) |-> ColPos(df.cols, dims[k])]
        spos == [k \in 1..Len(sum_cols) |-> ColPos(df.cols, sum_cols[k])]
        KeyOf(row) == <<week_start(row[dpos])>> \o [k \in 1..Len(kpos) |-> row[kpos[k]]]
        keyOf == [r \in 1..Len(df.rows) |-> KeyOf(df.rows[r])]
        keyed == {r \in 1..Len(df.rows) :
                     \A k \in 1..(Len(dims) + 1) : keyOf[r][k] # NULL}
        keyset == {keyOf[r] : r \in keyed}
        codeOrder == " \"-" \o Digits \o "<>" \o UpperAlpha \o "_" \o LowerAlpha
        Rank(c) == CHOOSE k \in 1..Len(codeOrder) : CharAt(codeOrder, k) = c
        StrLess(a, b) ==
            \E k \in 1..Len(b) :
                /\ k <= Len(a) + 1
                /\ SubSeq(a, 1, k - 1) = SubSeq(b, 1, k - 1)
                /\ (k > Len(a) \/ Rank(CharAt(a, k)) < Rank(CharAt(b, k)))
        KeyLess(a, b) ==
            \E k \in 1..Len(a) :
                /\ \A j \in 1..(k - 1) : a[j] = b[j]
                /\ StrLess(a[k], b[k])
        keys == CHOOSE seq \in [1..Cardinality(keyset) -> keyset] :
                    \A g, h \in 1..Cardinality(keyset) :
                        g < h => KeyLess(seq[g], seq[h])
        tagged == [r \in 1..Len(df.rows) |-> <<keyOf[r], df.rows[r]>>]
        InGroup(key) == LET Is(t) == t[1] = key
                            of == SelectSeq(tagged, Is)
                        IN  [n \in 1..Len(of) |-> of[n][2]]
    IN  [cols |-> <<date_col>> \o dims \o sum_cols,
         rows |-> [g \in 1..Len(keys) |->
                     keys[g] \o [k \in 1..Len(spos) |->
                                    NatText(SumCells(InGroup(keys[g]), spos[k]))]]]

\* weekly_rollup(df, date_col, sum_cols) of src/streamlit_app.py, keep_cols
\* left out as in its two calls: the key columns are the columns that are
\* neither summed nor the date.
weekly_rollup(df, date_col, sum_cols) ==
    IF df.rows = <<>> THEN df
    ELSE LET IsDim(c) == c # date_col /\ c # "week" /\ c \notin Range(sum_cols) IN
         weekly_sums(df, date_col, SelectSeq(df.cols, IsDim), sum_cols)

\* maybe_weekly(df, date_col, group_cols, sum_cols) of
\* src/streamlit/app/streamlit_app.py; flag is the sidebar's weekly_rollup
\* check box.
maybe_weekly(df, date_col, group_cols, sum_cols, flag) ==
    IF df.rows = <<>> \/ ~flag THEN df
    ELSE LET NotDate(c) == c # date_col IN
         weekly_sums(df, date_col, SelectSeq(group_cols, NotDate), sum_cols)

\* The frames handed to the rollup have at most MaxRows rows.
MaxRows == 2

\* The frames: pickup_date, service_type and a summed column, as tab 1 of
\* either dashboard builds them; the days are a Sunday, the Monday after it
\* and the Sunday that ends that week.
RollupFrames ==
    LET days == {"2024-06-30", "2024-07-01", "2024-07-07"}
        cells == {<<d, s, t>> : d \in days, s \in {"yellow", "fhv", NULL}, t \in {"1", "2"}}
    IN  UNION { {[cols |-> <<"pickup_date", "service_type", "trips">>, rows |-> rows] :
                    rows \in [1..n -> cells]} : n \in 1..MaxRows }

\* plotdf = weekly_rollup(plotdf, "pickup_date", ["trips"])
R_WeeklyRollup ==
    /\ prog = "rollup" /\ pc = "start" /\ arg.fn = "weekly_rollup"
    /\ ret' = weekly_rollup(arg.df, "pickup_date", <<"trips">>)
    /\ pc' = "done"
    /\ UNCHANGED <<frames, opts, sel, kpi, ui, panels, nq, arg>>
    /\ UNCHANGED <<run, first, printed, prog, cols, expr, data, disk, i, exc, idxFailed>>

\* df = maybe_weekly(df, "pickup_date", ["pickup_date","service_type"], ["trips"])
R_MaybeWeekly ==
    /\ prog = "rollup" /\ pc = "start" /\ arg.fn = "maybe_weekly"
    /\ ret' = maybe_weekly(arg.df, "pickup_date", <<"pickup_date", "service_type">>,
                           <<"trips">>, arg.flag)
    /\ pc' = "done"
    /\ UNCHANGED <<frames, opts, sel, kpi, ui, panels, nq, arg>>
    /\ UNCHANGED <<run, first, printed, prog, cols, expr, data, disk, i, exc, idxFailed>>

---------------------------------------------------------------------------
(* The resolver on its own: build_date_expr applied to a column list *)

\* DuckDB column names are unique without regard to case, so table_info
\* never reports two names with the same lower-cased form.
DistinctLower(cs) ==
    \A a, b \in 1..Len(cs) : a # b => lower(cs[a]) # lower(cs[b])

ColLists ==
    UNION { {cs \in [1..n -> NamePool] : DistinctLower(cs)} : n \in 0..MaxCols }

NotYet == "<not called>"

\* date_expr = build_date_expr(cols)
Resolve ==
    /\ prog = "resolver" /\ pc = "start"
    /\ expr' = build_date_expr(cols)
    /\ pc' = "done"
    /\ UNCHANGED <<dashVars, run, first, printed, prog, cols, data, disk, i, exc, idxFailed>>

---------------------------------------------------------------------------
(* The runs considered *)

MaxMissing == 1

Globs(list) == {list[k].glob : k \in 1..Len(list)}

\* Input directories of the ingestion builder: every folder holds the same
\* input but one, or up to MaxMissing folders are empty.
IngestInputs ==
    LET G == Globs(FILES) IN
    { [g \in G |-> IF g = FILES[at].glob THEN odd ELSE base] :
        base \in 1..NumFixtures, odd \in 1..NumFixtures, at \in 1..Len(FILES) }
    \cup
    { [g \in G |-> IF g \in gone THEN 0 ELSE base] :
        base \in 1..NumFixtures,
        gone \in {m \in SUBSET G : Cardinality(m) \in 1..MaxMissing} }

\* Input directories of the snapshot builder.
SnapshotInputs == [Globs(SNAP_TABLES) -> 0..NumFixtures]

InitResolver ==
    /\ prog = "resolver"
    /\ cols \in ColLists
    /\ data = <<>>
    /\ disk = NoFile

InitIngest ==
    /\ prog = "ingest"
    /\ cols = <<>>
    /\ data \in IngestInputs
    /\ disk \in {NoFile, OldDb}

InitSnapshot ==
    /\ prog = "snapshot"
    /\ cols = <<>>
    /\ data \in SnapshotInputs
    /\ disk \in {NoFile, OldDb}

InitDash ==
    /\ prog = "dash"
    /\ cols = <<>>
    /\ data = <<>>
    /\ disk \in IngestDbs

InitApp ==
    /\ prog = "app"
    /\ cols = <<>>
    /\ data = <<>>
    /\ disk \in SnapshotDbs

\* A call of one of the two rollups. weekly_rollup gets any frame (the
\* ingestion dashboard hands it the rows of a view, its check box ticked);
\* maybe_weekly gets the result of the query of tab 1, grouped by pickup_date
\* and service_type over the selected services: a service in every row and no
\* two rows of one day and one service, with the check box either way.
InitRollup ==
    /\ prog = "rollup"
    /\ cols = <<>>
    /\ data = <<>>
    /\ disk = NoFile
    /\ \E df \in RollupFrames :
          \/ arg = [fn |-> "weekly_rollup", df |-> df, flag |-> TRUE]
          \/ /\ \A r \in 1..Len(df.rows) : df.rows[r][2] # NULL
             /\ \A r1, r2 \in 1..Len(df.rows) :
                   (df.rows[r1][1] = df.rows[r2][1] /\ df.rows[r1][2] = df.rows[r2][2])
                       => r1 = r2
             /\ \E flag \in BOOLEAN : arg = [fn |-> "maybe_weekly", df |-> df, flag |-> flag]

Init ==
    /\ pc = "start"
    /\ expr = NotYet
    /\ i = 0
    /\ exc = ""
    /\ idxFailed = {}
    /\ run = 1
    /\ first = NoFile
    /\ printed = <<>>
    /\ frames = <<>> /\ opts = NoOpts /\ sel = NoSel /\ kpi = NoKpi
    /\ ui = <<>> /\ panels = <<>> /\ nq = 0
    /\ ret = [cols |-> <<>>, rows |-> <<>>]
    /\ \/ /\ arg = [fn |-> "", df |-> [cols |-> <<>>, rows |-> <<>>], flag |-> FALSE]
          /\ (InitResolver \/ InitIngest \/ InitSnapshot \/ InitDash \/ InitApp)
       \/ InitRollup

Next ==
    \/ Resolve
    \/ I_RemoveOld \/ I_Connect \/ I_CreateTable \/ I_CreateView
    \/ I_CreateIndexes \/ I_Span \/ I_Close
    \/ S_RemoveOld \/ S_EnsureInputs \/ S_Connect \/ S_CreateTable
    \/ S_CreateIndex \/ S_Close
    \/ Rerun
    \/ D_Open \/ D_Load \/ D_Filters \/ D_Kpis \/ D_Tab \/ D_Interact
    \/ A_Connect \/ A_Filters \/ A_Kpis \/ A_Tab \/ A_Interact
    \/ R_WeeklyRollup \/ R_MaybeWeekly

Spec == Init /\ [][Next]_vars

---------------------------------------------------------------------------
(* The rules of the specification, stated on their own *)

Tier1Names ==
    { "pickup_date", "date", "service_date", "pickup_datetime",
      "tpep_pickup_datetime", "lpep_pickup_datetime", "fhv_pickup_datetime",
      "fhvhv_pickup_datetime" }

Tier1Rule(c) == lower(c) \in Tier1Names

Tier2Rule(c) ==
    \/ Contains(lower(c), "date")
    \/ Contains(lower(c), "datetime")
    \/ lower(c) \in {"dt", "ds", "day"}
    \/ EndsWith(lower(c), "_date")

Tier3Rule(c) == lower(c) = "date_key" \/ EndsWith(lower(c), "_date_key")

AnyTier1(cs) == \E k \in 1..Len(cs) : Tier1Rule(cs[k])
AnyTier2(cs) == \E k \in 1..Len(cs) : Tier2Rule(cs[k])
AnyTier3(cs) == \E k \in 1..Len(cs) : Tier3Rule(cs[k])

\* The number of (possibly overlapping) places where sub occurs in s.
CountOcc(s, sub) ==
    Cardinality({k \in 1..(Len(s) - Len(sub) + 1) : SubSeq(s, k, k + Len(sub) - 1) = sub})

\* The first place where sub occurs in s, 0 if none.
IndexOf(s, sub) ==
    IF Contains(s, sub)
    THEN CHOOSE k \in 1..Len(s) :
            /\ SubSeq(s, k, k + Len(sub) - 1) = sub
            /\ \A j \in 1..(k - 1) : SubSeq(s, j, j + Len(sub) - 1) # sub
    ELSE 0

\* The expression refers to column c, bare or as a delimited identifier.
BareRef(c)   == "t." \o c \o " AS "
QuotedRef(c) == "t.\"" \o c \o "\" AS "
Mentions(e, c) == Contains(e, BareRef(c)) \/ Contains(e, QuotedRef(c))

\* The expression holds a plain cast candidate, or a YYYYMMDD candidate, of c.
PlainCandidate(e, c) ==
    \/ Contains(e, "TRY_CAST(t." \o c \o " AS DATE)")
    \/ Contains(e, "TRY_CAST(t.\"" \o c \o "\" AS DATE)")
YmdCandidate(e, c) ==
    Contains(e, "STRPTIME(CAST(t." \o c \o " AS VARCHAR), '%Y%m%d')")

\* Where the expression refers to column c (0: nowhere).
RefPos(e, c) ==
    IF Contains(e, BareRef(c)) THEN IndexOf(e, BareRef(c)) ELSE IndexOf(e, QuotedRef(c))

ResolverDone == prog = "resolver" /\ pc = "done"

\* The columns of the tier-1 names, in the order of the priority list.
RECURSIVE PriorityOrder(_, _)
PriorityOrder(cs, n) ==
    IF n > Len(DATE_CANDIDATES) THEN <<>>
    ELSE LET IsIt(c) == lower(c) = DATE_CANDIDATES[n] IN
         SelectSeq(cs, IsIt) \o PriorityOrder(cs, n + 1)

\* The candidates the specification asks for, leftmost first.
WantOrder(cs) ==
    IF AnyTier1(cs) THEN PriorityOrder(cs, 1)
    ELSE IF AnyTier2(cs) THEN SelectSeq(cs, Tier2Rule)
    ELSE SelectSeq(cs, Tier3Rule)

\* The cells a row may hold, and the rows of a table with columns cs.
CellValues == {NULL, "2024-07-01", "2024-07-02", "not-a-date"}
RowsFor(cs) == [1..Len(cs) -> CellValues]

\* The value of the leftmost column of want whose cast is not NULL.
RECURSIVE LeftmostDate(_, _, _)
LeftmostDate(want, cs, row) ==
    IF Len(want) = 0 THEN NULL
    ELSE LET v == TryCastDate(row[ColumnIndex(cs, want[1])]) IN
         IF v # NULL THEN v ELSE LeftmostDate(Tail(want), cs, row)

---------------------------------------------------------------------------
(* The claims *)

\* C1: when some column is a tier-1 name (without regard to case), the
\* expression holds one TRY_CAST candidate for each tier-1 column and refers
\* to no other column, even when other columns match tier 2 or tier 3.
C1_Tier1Only ==
    (ResolverDone /\ AnyTier1(cols)) =>
        /\ \A k \in 1..Len(cols) : Mentions(expr, cols[k]) <=> Tier1Rule(cols[k])
        /\ \A k \in 1..Len(cols) : Tier1Rule(cols[k]) => PlainCandidate(expr, cols[k])
        /\ CountOcc(expr, "TRY_CAST(") = Cardinality({k \in 1..Len(cols) : Tier1Rule(cols[k])})

\* C1's case: a tier-1 column beside a column that matches only tier 2.
C1_Witness ==
    /\ ResolverDone
    /\ \E a, b \in 1..Len(cols) :
          Tier1Rule(cols[a]) /\ ~Tier1Rule(cols[b]) /\ Tier2Rule(cols[b])

\* C2: when the only date-like columns are date_key or *_date_key columns
\* (and none is a tier-1 name), each of them is parsed as YYYYMMDD with
\* STRPTIME and '%Y%m%d', not cast to DATE as it is.
C2_DateKeyParsedAsYmd ==
    ( /\ ResolverDone
      /\ AnyTier3(cols)
      /\ \A k \in 1..Len(cols) :
            Tier3Rule(cols[k]) \/ ~(Tier1Rule(cols[k]) \/ Tier2Rule(cols[k])) )
    => \A k \in 1..Len(cols) :
          Tier3Rule(cols[k]) =>
             YmdCandidate(expr, cols[k]) /\ ~PlainCandidate(expr, cols[k])

\* C3: a run that ends on a dataset whose glob matches no file leaves no
\* output database file, in either builder.
C3_NoFileAfterMissingInput ==
    (prog \in {"ingest", "snapshot"} /\ pc = "crashed" /\ exc = "FileNotFoundError")
        => ~disk.exists

\* A double quote inside a delimited identifier is written twice.
RECURSIVE EscapeQuotes(_)
EscapeQuotes(s) ==
    IF Len(s) = 0 THEN ""
    ELSE (IF CharAt(s, 1) = "\"" THEN "\"\"" ELSE CharAt(s, 1)) \o EscapeQuotes(Drop(s, 1))

NeedsQuoting(c) == lower(c) = "date" \/ AnyCharIn(c, " -\"")

\* C4: every candidate whose name holds a space, a hyphen or a double quote,
\* or is date in lower case, is written as a delimited identifier with its
\* double quotes escaped, and the expression is valid SQL.
C4_QuotedAndEscaped ==
    ResolverDone =>
        /\ \A k \in 1..Len(WantOrder(cols)) :
              LET c == WantOrder(cols)[k] IN
              NeedsQuoting(c) =>
                 Contains(expr, "t.\"" \o EscapeQuotes(c) \o "\" AS ")
        /\ ExprAccepted(expr, cols)

\* C5: the candidates stand in one COALESCE, in the order of the priority
\* list (tier 1) or of the table's columns (tiers 2 and 3), and on every row
\* the expression yields the leftmost candidate whose cast is not NULL, and
\* NULL only when every cast is NULL.
C5_LeftmostNonNull ==
    (ResolverDone /\ Len(WantOrder(cols)) >= 1) =>
        LET want == WantOrder(cols) IN
        /\ StartsWith(expr, "COALESCE(") /\ CountOcc(expr, "COALESCE(") = 1
        /\ \A k \in 1..Len(want) : RefPos(expr, want[k]) > 0
        /\ \A a, b \in 1..Len(want) :
              a < b => RefPos(expr, want[a]) < RefPos(expr, want[b])
        /\ LET p == ParseExpr(expr) IN
           (p.ok /\ Binds(p, cols)) =>
              /\ [k \in 1..Len(p.cands) |-> p.cands[k].col] = want
              /\ \A row \in RowsFor(cols) :
                    EvalCands(p.cands, cols, row) = LeftmostDate(want, cols, row)

\* C5's case: two tier-1 candidates whose priority order is not the table's order.
C5_Witness ==
    /\ ResolverDone
    /\ AnyTier1(cols)
    /\ Len(WantOrder(cols)) = 2
    /\ WantOrder(cols) # cols
    /\ ExprAccepted(expr, cols)

NoTier(cs) == ~AnyTier1(cs) /\ ~AnyTier2(cs) /\ ~AnyTier3(cs)

\* The tables of this run whose view has been created.
ViewedTables ==
    IF prog = "ingest" /\ pc # "start"
    THEN {t \in DOMAIN disk.tables : ("v_" \o t) \in DOMAIN disk.views}
    ELSE {}

\* C7: a column list that matches no tier (the empty list too) gives
\* NULL::DATE; the build does not stop on such a table, and its view yields
\* NULL as pickup_date on every row.
C7_NoMatchGivesTypedNull ==
    /\ (ResolverDone /\ NoTier(cols)) => expr = "NULL::DATE"
    /\ \A t \in ViewedTables :
          NoTier(disk.tables[t].cols) =>
             /\ disk.views["v_" \o t].date_expr = "NULL::DATE"
             /\ \A r \in 1..Len(disk.tables[t].rows) :
                   LET vr == ViewRow(disk, "v_" \o t, r) IN vr[Len(vr)] = NULL
    /\ (prog = "ingest" /\ pc = "crashed" /\ exc # "FileNotFoundError")
          => ~NoTier(disk.tables[FILES[i].tbl].cols)

\* C7's case: a finished build with the view of a table that matches no tier.
C7_Witness ==
    /\ prog = "ingest" /\ pc = "done"
    /\ \E t \in ViewedTables :
          NoTier(disk.tables[t].cols) /\ Len(disk.tables[t].rows) > 0

\* C8: the view of a table with a pickup_date column has one pickup_date
\* column, the computed one; it never shows the raw text, and where the raw
\* value is a valid date the view yields that date.
C8_SinglePickupDate ==
    \A t \in ViewedTables :
       LET tab == disk.tables[t]
           v   == disk.views["v_" \o t]
       IN  HasColumn(tab.cols, "pickup_date") =>
             /\ Cardinality({k \in 1..Len(v.cols) : lower(v.cols[k]) = "pickup_date"}) = 1
             /\ v.cols[Len(v.cols)] = "pickup_date"
             /\ \A r \in 1..Len(tab.rows) :
                   LET raw == tab.rows[r][ColumnIndex(tab.cols, "pickup_date")]
                       vr  == ViewRow(disk, "v_" \o t, r)
                       out == vr[Len(vr)]
                   IN  /\ out = NULL \/ IsDateText(out)
                       /\ (raw # NULL /\ IsDateText(raw)) => out = raw

\* C8's case: the view of a table whose pickup_date column holds a valid date
\* in one row and a malformed one in another.
C8_Witness ==
    \E t \in ViewedTables :
       LET tab == disk.tables[t] IN
       /\ HasColumn(tab.cols, "pickup_date")
       /\ \E r1, r2 \in 1..Len(tab.rows) :
             LET k == ColumnIndex(tab.cols, "pickup_date") IN
             IsDateText(tab.rows[r1][k]) /\ tab.rows[r2][k] = "not-a-date"

TableNames == {FILES[k].tbl : k \in 1..Len(FILES)}

\* C9: after a successful run of the ingestion builder the database holds the
\* tables of the dataset list and nothing else, one view v_<table> per table
\* and no other, and each view shows its table's columns but a raw
\* pickup_date, then one pickup_date column.
C9_TablesAndViews ==
    (prog = "ingest" /\ pc = "done") =>
        /\ disk.exists
        /\ DOMAIN disk.tables = TableNames
        /\ DOMAIN disk.views = {"v_" \o t : t \in TableNames}
        /\ \A t \in TableNames :
              LET tab == disk.tables[t]
                  v   == disk.views["v_" \o t]
                  NotRaw(c) == lower(c) # "pickup_date"
              IN  /\ v.from = t
                  /\ tab = Fixtures[data[CHOOSE g \in DOMAIN data :
                                           \E k \in 1..Len(FILES) :
                                              FILES[k].glob = g /\ FILES[k].tbl = t]]
                  /\ v.cols = SelectSeq(tab.cols, NotRaw) \o <<"pickup_date">>

\* C9's case: a successful run over a database file an earlier run had left,
\* with a table that has a raw pickup_date column.
C9_Witness ==
    /\ prog = "ingest" /\ pc = "done"
    /\ \E t \in DOMAIN disk.tables : HasColumn(disk.tables[t].cols, "pickup_date")
    /\ \E t \in DOMAIN disk.tables : ~HasColumn(disk.tables[t].cols, "pickup_date")

\* C10: in either builder a CREATE INDEX statement that fails is ignored:
\* the run does not end on it.
C10_IndexFailureIgnored ==
    idxFailed # {} => pc # "crashed"

\* The tables with a pickup_date column and a service_date column.
HasBothDates(cs) == HasColumn(cs, "pickup_date") /\ HasColumn(cs, "service_date")

\* C11: for a table with a pickup_date column that holds not-a-date in some
\* row and a well-formed service_date column, the pickup_date candidate
\* stands before the service_date candidate, the build does not end on that
\* table, the cast of the malformed value is NULL on that row, and every row
\* whose pickup_date is a valid date keeps it as its normalized pickup_date.
C11_MalformedDegradesToNull ==
    /\ \A t \in ViewedTables :
          LET tab == disk.tables[t]
              v   == disk.views["v_" \o t]
          IN  HasBothDates(tab.cols) =>
                /\ Len(v.plan) = 2
                /\ lower(v.plan[1].col) = "pickup_date"
                /\ lower(v.plan[2].col) = "service_date"
                /\ \A r \in 1..Len(tab.rows) :
                      LET raw  == tab.rows[r][ColumnIndex(tab.cols, "pickup_date")]
                          cast == EvalCandidate(v.plan[1], tab.cols, tab.rows[r])
                          vr   == ViewRow(disk, "v_" \o t, r)
                      IN  /\ raw = "not-a-date" => cast = NULL
                          /\ (raw # NULL /\ IsDateText(raw)) => vr[Len(vr)] = raw
    /\ (prog = "ingest" /\ pc = "crashed" /\ exc # "FileNotFoundError")
          => ~HasBothDates(disk.tables[FILES[i].tbl].cols)

\* C11's case: a finished build with the view of a table whose service_date
\* column stands before its pickup_date column, with not-a-date in one row
\* and a valid pickup_date in another.
C11_Witness ==
    /\ prog = "ingest" /\ pc = "done"
    /\ \E t \in ViewedTables :
          LET tab == disk.tables[t] IN
          /\ HasBothDates(tab.cols)
          /\ ColumnIndex(tab.cols, "service_date") < ColumnIndex(tab.cols, "pickup_date")
          /\ \E r1, r2 \in 1..Len(tab.rows) :
                LET k == ColumnIndex(tab.cols, "pickup_date") IN
                /\ tab.rows[r1][k] = "not-a-date"
                /\ IsDateText(tab.rows[r1][ColumnIndex(tab.cols, "service_date")])
                /\ IsDateText(tab.rows[r2][k])


\* A row without the cell of its pickup_date column (the whole row when the
\* table has no such column).
WithoutPickupDate(cs, row) ==
    LET Keep == {k \in 1..Len(cs) : lower(cs[k]) # "pickup_date"}
        Nth(n) == CHOOSE k \in Keep : Cardinality({j \in Keep : j < k}) = n - 1
    IN  [n \in 1..Cardinality(Keep) |-> row[Nth(n)]]

\* C12: the view of every table built has the rows of its table: as many,
\* in the same order, each with the table's cells but the raw pickup_date,
\* followed by the computed pickup_date; no row is added, dropped or doubled.
C12_ViewHasTableRows ==
    \A t \in ViewedTables :
       LET tab  == disk.tables[t]
           rows == ViewRows(disk, "v_" \o t)
       IN  /\ Len(rows) = Len(tab.rows)
           /\ \A r \in 1..Len(rows) :
                 /\ Len(rows[r]) >= 1
                 /\ SubSeq(rows[r], 1, Len(rows[r]) - 1)
                       = WithoutPickupDate(tab.cols, tab.rows[r])

\* C12's case: a finished build with a view whose computed pickup_date is
\* NULL on one row and a date on another, over a table with a raw pickup_date.
C12_Witness ==
    /\ prog = "ingest" /\ pc = "done"
    /\ \E t \in ViewedTables :
          LET rows == ViewRows(disk, "v_" \o t) IN
          /\ HasColumn(disk.tables[t].cols, "pickup_date")
          /\ \E r1, r2 \in 1..Len(rows) :
                rows[r1][Len(rows[r1])] = NULL /\ rows[r2][Len(rows[r2])] # NULL


\* What a database holds: its tables and its views, each with its row count.
Summary(db) ==
    [exists |-> db.exists,
     tables |-> [t \in DOMAIN db.tables |-> count_rows(db, t)],
     views  |-> [v \in DOMAIN db.views |-> Len(ViewRows(db, v))]]

\* C13: a builder run a second time on the same inputs leaves the same
\* tables and views, with the same row count in each, as the first run left.
C13_Idempotent ==
    (IsBuilder /\ run >= 2 /\ RunEnded) => Summary(disk) = Summary(first)

\* C13's case: a second run of the ingestion builder that has finished, with
\* tables and views that hold rows.
C13_Witness ==
    /\ prog = "ingest" /\ run = 2 /\ pc = "done"
    /\ \E t \in DOMAIN disk.tables : count_rows(disk, t) > 0
    /\ \E v \in DOMAIN disk.views : Len(ViewRows(disk, v)) > 0
    /\ first.exists


\* The first n table names of a dataset list.
FirstTables(list, n) == {list[k].tbl : k \in 1..n}

\* The tables this run has created so far.
CreatedTables ==
    LET list == IF prog = "ingest" THEN FILES ELSE SNAP_TABLES IN
    IF pc \in {"connect", "ensure"} THEN {}
    ELSE IF pc = "tables" THEN FirstTables(list, i - 1)
    ELSE IF pc = "crashed" /\ exc = "FileNotFoundError"
         THEN (IF prog = "ingest" THEN FirstTables(list, i - 1) ELSE {})
    ELSE FirstTables(list, Len(list))

\* What this run reads for table t from its input directory.
InputOf(t) ==
    IF prog = "ingest"
    THEN read_parquet(data, FILES[CHOOSE k \in 1..Len(FILES) : FILES[k].tbl = t].glob)
    ELSE parquet_scan(data, SNAP_TABLES[CHOOSE k \in 1..Len(SNAP_TABLES) : SNAP_TABLES[k].tbl = t].glob)

\* The index names this run may create.
RunIndexNames ==
    IF prog = "ingest"
    THEN UNION {{"idx_" \o IDX_TABLES[k] \o "_date", "idx_" \o IDX_TABLES[k] \o "_svc"} :
                   k \in 1..Len(IDX_TABLES)}
    ELSE {SNAP_INDEXES[k].name : k \in 1..Len(SNAP_INDEXES)}

\* C14: a builder run removes the database file an earlier run left before it
\* creates anything, so from then on, and after the run however it ends, the
\* file holds only what this run wrote: the tables it has created so far with
\* the rows of this run's inputs, views over those tables, and its own indexes.
C14_WholesaleOverwrite ==
    (IsBuilder /\ pc # "start") =>
        /\ pc \in {"connect", "ensure"} => ~disk.exists
        /\ DOMAIN disk.tables = CreatedTables
        /\ \A t \in DOMAIN disk.tables : disk.tables[t] = InputOf(t)
        /\ \A v \in DOMAIN disk.views :
              LET w == disk.views[v] IN
              /\ w.from \in DOMAIN disk.tables /\ v = view_name(w.from)
              /\ w.date_expr = build_date_expr(disk.tables[w.from].cols)
        /\ pc = "tables" => DOMAIN disk.views = {}
        /\ disk.indexes \subseteq RunIndexNames
        /\ pc \in {"tables", "views"} => disk.indexes = {}

\* C14's case: a run over the complete file of the run before it, part of the
\* way through its tables.
C14_Witness ==
    /\ prog = "ingest" /\ run = 2 /\ pc = "tables" /\ i = 3
    /\ DOMAIN first.tables = TableNames
    /\ first.indexes # {}
    /\ DOMAIN disk.tables = FirstTables(FILES, 2)


\* Every dataset pattern of the running builder matches at least one file.
AllInputsPresent == \A g \in DOMAIN data : data[g] # 0

\* The datasets whose row count this run has printed.
PrintedTables == {printed[k].tbl : k \in 1..Len(printed)}

\* C15: a builder run whose every dataset pattern matches a file ends
\* successfully, with a row count printed for every dataset; a run with a
\* pattern that matches no file ends with an unhandled FileNotFoundError; a
\* run ends in no other way.
C15_ExitBehaviour ==
    (IsBuilder /\ RunEnded) =>
        IF AllInputsPresent
        THEN /\ pc = "done" /\ exc = ""
             /\ PrintedTables = CreatedTables
             /\ \A k \in 1..Len(printed) :
                   printed[k].cnt = Len(InputOf(printed[k].tbl).rows)
        ELSE pc = "crashed" /\ exc = "FileNotFoundError"


\* One of the two dashboards is the running program.
IsDashboard == prog \in {"dash", "app"}

\* C16: no step of a dashboard (the connection, the start-up load, a filter
\* change, a KPI or panel query) changes the database file, its tables, views,
\* rows or indexes: the file a dashboard run starts with is the file it leaves.
C16_DatabaseUnchanged == [][IsDashboard => disk' = disk]_vars

\* C16's case: a dashboard rendered again after a filter change, its queries
\* issued against an existing database.
C16_Witness ==
    /\ IsDashboard /\ disk.exists
    /\ pc = "rendered" /\ nq > 0
    /\ sel.exclude_unknown = FALSE

\* C17: started on a missing database file, a dashboard shows an error and
\* stops the run: no query issued, no filter, KPI or panel rendered, no
\* unhandled exception.
C17_MissingFileStops ==
    (IsDashboard /\ ~disk.exists /\ pc # "start") =>
        /\ pc = "stopped" /\ exc = ""
        /\ ui = <<"error">>
        /\ nq = 0 /\ frames = <<>> /\ opts = NoOpts
        /\ ~kpi.shown /\ panels = <<>>

\* C17's case: the ingestion dashboard stopped on a missing file.
C17_Witness == prog = "dash" /\ ~disk.exists /\ pc = "stopped"


\* The sidebar's dates and services select no row of trips_agg.
SelectsNoRow ==
    /\ prog = "app" /\ disk.exists /\ sel # NoSel
    /\ sql_where(disk.tables["trips_agg"], "sidebar", {}, sel) = <<>>

\* The ingestion dashboard past its KPI row: no exception, sums of zero over
\* no rows, and an empty chart or a message in every panel without rows.
IngestionDashboardRenders ==
    (prog = "dash" /\ pc \in {"tabs", "rendered"}) =>
        /\ exc = ""
        /\ kpi.shown /\ (kpi.rows = 0 => kpi.trips = 0 /\ kpi.revenue = 0)
        /\ \A n \in 1..Len(panels) :
              panels[n].rows = <<>> => panels[n].kind \in {"chart", "info"}

\* C18: when the filters select no row, no step of a dashboard run ends in an
\* unhandled exception, the KPI row shows zeros, and a panel with no row
\* shows an empty chart or a message.
C18_EmptyResultRenders ==
    /\ IngestionDashboardRenders
    /\ (SelectsNoRow /\ pc \notin {"start", "filters", "kpis"}) =>
          /\ pc # "crashed" /\ exc = ""
          /\ kpi.shown /\ kpi.trips = 0 /\ kpi.revenue = 0
          /\ \A n \in 1..Len(panels) : panels[n].rows = <<>>


\* The pickup_date of a row under the columns cs, NULL when it has none.
RowDate(cs, row) ==
    IF HasCol(cs, "pickup_date") THEN to_datetime(row[ColPos(cs, "pickup_date")]) ELSE NULL

\* The row's pickup_date lies in the selected range, bounds included.
InSelectedRange(cs, row) ==
    /\ RowDate(cs, row) # NULL
    /\ date_ord(sel.start_date) <= date_ord(RowDate(cs, row))
    /\ date_ord(RowDate(cs, row)) <= date_ord(sel.end_date)

\* The row's pickup_date is the first or the last day of the selected range.
OnBound(cs, row) == RowDate(cs, row) \in {sel.start_date, sel.end_date} \ {NULL}

\* The rows of a sequence, as a set.
RowSet(rows) == {rows[k] : k \in 1..Len(rows)}

\* The frame or table that tab n of the running dashboard reads.
TabSource(n) ==
    IF prog = "dash" THEN frames[TABS[n].frame] ELSE disk.tables[APP_TABS[n].table]

\* The date filter alone, as the running dashboard applies it to t.
DateFiltered(t) ==
    IF prog = "dash"
    THEN filter_by_date_service(t, sel.start_date, sel.end_date, {}).rows
    ELSE sql_where(t, "none", {}, [sel EXCEPT !.exclude_unknown = FALSE])

\* The date filter on the panels whose source is in the set of tabs ns: the
\* rows a panel aggregates lie in the selected range, and the filter keeps
\* every row dated on one of the two bounds.
DateFilterOn(ns) ==
    \A n \in ns \cap (1..Len(panels)) :
        /\ \A row \in RowSet(panels[n].rows) : InSelectedRange(panels[n].cols, row)
        /\ \A row \in RowSet(TabSource(n).rows) :
              OnBound(TabSource(n).cols, row) => row \in RowSet(DateFiltered(TabSource(n)))

\* The tabs whose source holds at least one row with a date.
DatedTabs == {n \in 1..Len(panels) : FrameDates(TabSource(n)) # {}}

\* C19 as stated: in every panel of both dashboards, every aggregated row has
\* start_date <= pickup_date <= end_date and the rows dated start_date or
\* end_date are kept.
C19_DateFilterEveryPanel ==
    (IsDashboard /\ pc \in {"tabs", "rendered"}) => DateFilterOn(1..Len(panels))

\* C19 amended: the same, for the panels whose source frame or table holds at
\* least one row with a pickup_date; a frame without any is not filtered by
\* date.
C19_DateFilterDatedPanels ==
    (IsDashboard /\ pc \in {"tabs", "rendered"}) => DateFilterOn(DatedTabs)

\* C19's case: the ingestion dashboard rendered for a range of one day, its
\* first panel showing the rows of that day and dropping the others.
C19_Witness ==
    /\ prog = "dash" /\ pc = "rendered"
    /\ sel.start_date = "2024-07-03" /\ sel.end_date = "2024-07-03"
    /\ 1 \in DatedTabs
    /\ panels[1].rows # <<>>
    /\ Len(panels[1].rows) < Len(TabSource(1).rows)


\* How tab n of the running dashboard restricts services.
TabSvc(n) == IF prog = "dash" THEN TABS[n].svc ELSE APP_TABS[n].svc

\* The rows of panel n have a service_type of the sidebar's selection, and
\* of the three allowed services too when the panel is limited to them.
PanelServicesSelected(n) ==
    \A row \in RowSet(panels[n].rows) :
        /\ row[ColPos(panels[n].cols, "service_type")] \in sel.services
        /\ TabSvc(n) = "allowed" =>
              row[ColPos(panels[n].cols, "service_type")] \in ALLOWED

\* The panels that take the sidebar's service selection and whose rows
\* carry a service_type.
SidebarPanels ==
    {n \in 1..Len(panels) :
        TabSvc(n) \in {"sidebar", "allowed"} /\ HasCol(panels[n].cols, "service_type")}

\* C20: every row aggregated by a panel has a service_type of the set
\* selected in the sidebar, and a panel limited to yellow, green and fhvhv
\* shows no rows when the selection holds none of the three.
C20_ServiceFilter ==
    (IsDashboard /\ pc \in {"tabs", "rendered"}) =>
        \A n \in SidebarPanels :
            /\ PanelServicesSelected(n)
            /\ (TabSvc(n) = "allowed" /\ sel.services \cap ALLOWED = {}) =>
                  panels[n].rows = <<>>

\* The same for the panels that hand filter_by_date_service a list that is
\* not empty, and for the SQL panels.
ServiceFilterOnNonEmptyList ==
    (IsDashboard /\ pc \in {"tabs", "rendered"}) =>
        \A n \in SidebarPanels :
            (prog = "app" \/ TabServices(n, sel) # {}) => PanelServicesSelected(n)


\* The views step 2 of the ingestion builder creates.
AllViews == {view_name(FILES[k].tbl) : k \in 1..Len(FILES)}

\* C21: in a run of the ingestion builder, past the removal of the old file,
\* every view on the file has its table on the file, a view exists only when
\* every table of FILES exists, an index exists only when every view exists,
\* and a run ended by a missing input has left no view.
C21_BuildStepOrdering ==
    (prog = "ingest" /\ pc # "start") =>
        /\ \A v \in DOMAIN disk.views : disk.views[v].from \in DOMAIN disk.tables
        /\ DOMAIN disk.views # {} => TableNames \subseteq DOMAIN disk.tables
        /\ disk.indexes # {} => AllViews \subseteq DOMAIN disk.views
        /\ exc = "FileNotFoundError" => DOMAIN disk.views = {}

\* C21's case: a run ended by a missing input after it had created tables.
C21_Witness ==
    /\ prog = "ingest" /\ pc = "crashed" /\ exc = "FileNotFoundError"
    /\ DOMAIN disk.tables # {}
    /\ DOMAIN disk.views = {}

\* A run that has created its first index, every table and view before it.
IndexedAfterViews ==
    /\ prog = "ingest" /\ pc = "indexes" /\ disk.indexes # {}
    /\ AllViews \subseteq DOMAIN disk.views


\* A dashboard has computed the span of its data and its default range.
DefaultsComputed == IsDashboard /\ opts # NoOpts

\* C22: whenever the database holds a date, the default range of the date
\* filter lies in the data's span:
\* min_date <= default_start <= default_end <= max_date.
C22_DefaultRangeWithinData ==
    DefaultsComputed =>
        /\ date_ord(opts.min_date) <= date_ord(opts.default_start)
        /\ date_ord(opts.default_start) <= date_ord(opts.default_end)
        /\ date_ord(opts.default_end) <= date_ord(opts.max_date)

\* What holds of the default range in both dashboards, and the lower bound
\* in the snapshot dashboard.
DefaultRangeOrdered ==
    DefaultsComputed =>
        /\ date_ord(opts.default_start) <= date_ord(opts.default_end)
        /\ date_ord(opts.default_end) <= date_ord(opts.max_date)
        /\ prog = "app" => date_ord(opts.min_date) <= date_ord(opts.default_start)


\* The engine reads the expression e as references, each through the alias
\* t, to columns whose names are elements of cs as they are written there.
ReferencesColumnsOf(e, cs) ==
    \E p \in {ParseExpr(e)} :
        p.ok /\ \A k \in 1..Len(p.cands) : p.cands[k].col \in Range(cs)

\* C23: every column the expression returned by build_date_expr refers to is
\* an element of the column list in its original case, referred to through
\* the alias t.
C23_ReferencesInputColumns ==
    ResolverDone => ReferencesColumnsOf(expr, cols)

\* The same for the column lists without a double quote in a name.
ReferencesInputColumnsUnlessQuote ==
    (ResolverDone /\ \A k \in 1..Len(cols) : ~Contains(cols[k], "\"")) =>
        ReferencesColumnsOf(expr, cols)


\* A rollup has been applied: weekly_rollup, or maybe_weekly with the check
\* box ticked, has returned.
RollupDone == prog = "rollup" /\ pc = "done" /\ (arg.fn = "weekly_rollup" \/ arg.flag)

\* The (week start, service) pairs of the input rows and of the output rows.
InputPairs  == {<<week_start(row[1]), row[2]>> : row \in RowSet(arg.df.rows)}
OutputPairs == {<<row[1], row[2]>> : row \in RowSet(ret.rows)}

\* The total of the summed column over the rows of service g.
GroupTotal(rows, g) ==
    LET Of(row) == row[2] = g IN SumCells(SelectSeq(rows, Of), 3)

\* One output row per pair of the input, and for every service of the input
\* the same total in the output.
RollupKeepsTotals ==
    /\ OutputPairs = InputPairs
    /\ Len(ret.rows) = Cardinality(InputPairs)
    /\ \A g \in {row[2] : row \in RowSet(arg.df.rows)} :
          GroupTotal(ret.rows, g) = GroupTotal(arg.df.rows, g)

\* C24: for every non-empty frame with valid dates, the weekly rollup returns
\* one row per (week start, group) pair, and for every group the total of
\* the summed column over the output equals its total over the input.
C24_WeeklyRollupKeepsTotals == RollupDone => RollupKeepsTotals

\* The same for the frames with a service in every row.
RollupKeepsTotalsOfKnownServices ==
    (RollupDone /\ \A row \in RowSet(arg.df.rows) : row[2] # NULL) => RollupKeepsTotals

=============================================================================
